---- MODULE Spec2Model ----
(***************************************************************************)
(* A model of the two scraper services of this repository:                 *)
(*   src/app1.py  (FastAPI variant)  and  src/app.py  (Flask-RESTX variant) *)
(* Every request is one atomic handler step: the handler fetches a page,    *)
(* walks the parsed document and produces an outcome (status + body).       *)
(*                                                                          *)
(* Strings of the program are sequences of one-character strings, so that   *)
(* startswith, strip, split, concatenation and length are computed as the   *)
(* code computes them.  An absent value (Python None) is the value None.    *)
(* Fixed messages of the code (error details, notes) are TLA+ strings, and  *)
(* an absent message is NoMsg.                                              *)
(***************************************************************************)
EXTENDS Integers, Sequences, FiniteSets, TLC

VARIABLES pc, op, req, gets, fetched, out, frame, heap, module, earlier

\* one request at a time: the handler's position, operation, request, outbound
\* GETs, their results and the response
seq_vars == <<pc, op, req, gets, fetched, out>>

\* requests handled by workers: each worker's call frame (its locals), the
\* list objects the calls have created, the module-level names, and the
\* record of a call that was answered earlier
conc_vars == <<frame, heap, module, earlier>>

vars == <<pc, op, req, gets, fetched, out, frame, heap, module, earlier>>

-----------------------------------------------------------------------------
(* Bounds of the model *)

\* the largest number of <source> children of a video element
MaxSources == 2

-----------------------------------------------------------------------------
(* Python values *)

None == <<"None">>
NoMsg == "None"
Empty == <<>>

\* Python truthiness of an optional string: None and "" are falsy
Truthy(s) == s # None /\ s # Empty

\* str.startswith
StartsWith(s, p) == Len(s) >= Len(p) /\ SubSeq(s, 1, Len(p)) = p

IsSpace(c) == c = " "

RECURSIVE LStrip(_)
LStrip(s) == IF s # <<>> /\ IsSpace(Head(s)) THEN LStrip(Tail(s)) ELSE s

RECURSIVE RStrip(_)
RStrip(s) ==
    IF s # <<>> /\ IsSpace(s[Len(s)]) THEN RStrip(SubSeq(s, 1, Len(s) - 1)) ELSE s

\* str.strip()
Strip(s) == LStrip(RStrip(s))

\* str.split(','): the pieces between the commas, empty pieces included
RECURSIVE SplitComma(_, _)
SplitComma(s, cur) ==
    IF s = <<>> THEN <<cur>>
    ELSE IF Head(s) = "," THEN <<cur>> \o SplitComma(Tail(s), <<>>)
    ELSE SplitComma(Tail(s), Append(cur, Head(s)))

\* [x.strip() for x in s.split(',') if x.strip()]
RECURSIVE StripNonEmpty(_)
StripNonEmpty(parts) ==
    IF parts = <<>> THEN <<>>
    ELSE IF Strip(Head(parts)) # <<>>
         THEN <<Strip(Head(parts))>> \o StripNonEmpty(Tail(parts))
         ELSE StripNonEmpty(Tail(parts))

\* the pieces as they are split, neither trimmed nor dropped
SpritePreviews_Untrimmed(s) == SplitComma(s, <<>>)

SpritePreviews(s) == StripNonEmpty(SplitComma(s, <<>>))

\* all sequences over S of length at most n
SeqUpTo(S, n) == UNION {[1..k -> S] : k \in 0..n}

-----------------------------------------------------------------------------
(* Module-level constants of both variants *)

BASE_URL == <<"h","t","t","p","s",":","/","/","h","q","p","o","r","n",".","x","x","x">>

HttpPrefix == <<"h","t","t","p">>
HttpSlashes == <<"h","t","t","p",":","/","/">>
HttpsSlashes == <<"h","t","t","p","s",":","/","/">>
BlobPrefix == <<"b","l","o","b",":">>

-----------------------------------------------------------------------------
(* Video-page documents *)

U1 == <<"h","t","t","p",":","1">>
U2 == <<"h","t","t","p",":","2">>
U3 == <<"h","t","t","p",":","3">>
BlobUrl == <<"b","l","o","b",":","1">>
Mp4 == <<"m","p","4">>
Webm == <<"w","e","b","m">>
DefaultMime == <<"v","i","d","e","o","/","m","p","4">>
Poster == <<"h","t","t","p",":","p">>

\* <source> children: src, type, size and data-size attributes (None = no attribute)
SourceEls ==
    { [src |-> U1, type |-> Mp4, size |-> <<"7">>, dsize |-> None],
      [src |-> U2, type |-> Mp4, size |-> <<"4">>, dsize |-> <<"3">>],
      [src |-> U1, type |-> None, size |-> None, dsize |-> None],
      [src |-> None, type |-> Mp4, size |-> None, dsize |-> None],
      [src |-> Empty, type |-> None, size |-> None, dsize |-> None],
      [src |-> BlobUrl, type |-> Mp4, size |-> None, dsize |-> None] }

VideoSrcs == {None, Empty, U1, U3, BlobUrl}

SpriteStrings ==
    { None, Empty,
      <<"a", ",", " ", "b">>,
      <<" ", "a", " ", ",", ",", " ", ",", "b", ",">>,
      <<"a", " ", "b", ",", "c", " ">> }

\* <video> elements: every src with every list of children, and a few elements
\* that vary the remaining attributes
VideoEls ==
    { [src |-> s, type |-> None, poster |-> None, preview |-> None, sources |-> c] :
        s \in VideoSrcs, c \in SeqUpTo(SourceEls, MaxSources) }
    \cup
    { [src |-> s, type |-> t, poster |-> p, preview |-> v, sources |-> <<>>] :
        s \in {None, U1}, t \in {None, Webm}, p \in {None, Poster}, v \in SpriteStrings }

NoElement == [tag |-> "none"]

\* A video page: the <video id="video_html5_api"> element (or none), the
\* div.b-video-player (absent, or present with its first <video> or none), and
\* whether an inline script holds a player hint
StreamDocs ==
    { [idVideo |-> v, player |-> FALSE, playerVideo |-> NoElement, script |-> s] :
        v \in VideoEls \cup {NoElement}, s \in BOOLEAN }
    \cup
    { [idVideo |-> NoElement, player |-> TRUE, playerVideo |-> v, script |-> s] :
        v \in VideoEls \cup {NoElement}, s \in BOOLEAN }
    \cup
    { [idVideo |-> v, player |-> TRUE, playerVideo |-> w, script |-> FALSE] :
        v \in {x \in VideoEls : x.src = U1 /\ x.sources = <<>> /\ x.preview = None},
        w \in {x \in VideoEls : x.src = U3 /\ x.sources = <<>>} }

\* the result of one outbound GET: a failure (network error or non-2xx status)
\* or the parsed document
FetchFailed == [ok |-> FALSE, doc |-> NoElement]
Fetched(d) == [ok |-> TRUE, doc |-> d]

-----------------------------------------------------------------------------
(* Outcomes of a request: the HTTP status, the error detail (NoMsg on        *)
(* success), the list body of a listing operation and the descriptor body    *)
(* of a stream operation                                                     *)

NoStream == [absent |-> TRUE]

Outcome(status, detail, list, stream) ==
    [status |-> status, detail |-> detail, list |-> list, stream |-> stream]

\* HTTPException(status_code, detail) / api.abort(status, message)
HttpError(status, detail) == Outcome(status, detail, <<>>, NoStream)

OkList(list) == Outcome(200, NoMsg, list, NoStream)
OkStream(stream) == Outcome(200, NoMsg, <<>>, stream)

\* dict.get(key, default): the default only when the key is missing
DictGet(d, key, default) == IF key \in DOMAIN d THEN d[key] ELSE default

-----------------------------------------------------------------------------
(* app1.py: scrape_video_stream_data *)

NoteNoSources1 == "No direct video <src> or <source> tags were found in the initial HTML parse."

\* soup.find('video', id='video_html5_api'), else the first <video> of div.b-video-player
FindVideoTag(doc) ==
    IF doc.idVideo # NoElement THEN doc.idVideo
    ELSE IF doc.player THEN doc.playerVideo
    ELSE NoElement

StreamData(video_page_url) ==
    [video_page_url |-> video_page_url, main_video_src |-> None, source_tags |-> <<>>,
     poster_image |-> None, sprite_previews |-> <<>>, note |-> NoMsg]

\* "if src_url and src_url not in found_sources"
IsNewSource1_NoDedup(src_url, found_sources) == Truthy(src_url)

IsNewSource1(src_url, found_sources) ==
    Truthy(src_url) /\ src_url \notin found_sources

\* the loop with every new entry put in front of the list
RECURSIVE CollectSourceTags1_Prepend(_, _, _)
CollectSourceTags1_Prepend(source_elements, found_sources, source_tags) ==
    IF source_elements = <<>> THEN source_tags
    ELSE LET source_tag == Head(source_elements) IN
         IF source_tag.src # None /\ IsNewSource1(source_tag.src, found_sources)
         THEN CollectSourceTags1_Prepend(Tail(source_elements),
                  found_sources \cup {source_tag.src},
                  << [src |-> source_tag.src,
                      type |-> source_tag.type,
                      size |-> source_tag.size] >> \o source_tags)
         ELSE CollectSourceTags1_Prepend(Tail(source_elements), found_sources, source_tags)

\* the loop over video_tag.find_all('source')
RECURSIVE CollectSourceTags1(_, _, _)
CollectSourceTags1(source_elements, found_sources, source_tags) ==
    IF source_elements = <<>> THEN source_tags
    ELSE LET source_tag == Head(source_elements) IN
         IF source_tag.src # None /\ IsNewSource1(source_tag.src, found_sources)
         THEN CollectSourceTags1(Tail(source_elements),
                  found_sources \cup {source_tag.src},
                  Append(source_tags, [src |-> source_tag.src,
                                       type |-> source_tag.type,
                                       size |-> source_tag.size]))
         ELSE CollectSourceTags1(Tail(source_elements), found_sources, source_tags)

\* the descriptor built from a found <video> element
ExtractStream1(video_page_url, video_tag) ==
    LET main_video_src == video_tag.src
        found_sources == IF Truthy(main_video_src) THEN {main_video_src} ELSE {}
        source_tags == CollectSourceTags1(video_tag.sources, found_sources, <<>>)
    IN  [StreamData(video_page_url) EXCEPT
            !.main_video_src = main_video_src,
            !.source_tags = source_tags,
            !.note = IF ~Truthy(main_video_src) /\ source_tags = <<>>
                     THEN NoteNoSources1 ELSE NoMsg,
            !.poster_image = video_tag.poster,
            !.sprite_previews = IF video_tag.preview # None
                                THEN SpritePreviews(video_tag.preview) ELSE <<>>]

UrlIsValid1(video_page_url) ==
    Truthy(video_page_url) /\ StartsWith(video_page_url, HttpPrefix)

scrape_video_stream_data(video_page_url, fetch) ==
    IF ~UrlIsValid1(video_page_url)
    THEN HttpError(400, "Invalid video page URL provided")
    ELSE IF ~fetch.ok
    THEN HttpError(500, "Failed to fetch or parse URL")
    ELSE LET video_tag == FindVideoTag(fetch.doc) IN
         IF video_tag = NoElement
         THEN HttpError(404, "Video player tag not found on the page.")
         ELSE OkStream(ExtractStream1(video_page_url, video_tag))

-----------------------------------------------------------------------------
(* app.py: scrape_video_page_for_streams and StreamLinks.get *)

FetchErrorMsg == "Failed to fetch page: e"
PlayerNotFoundMsg == "Video player tag not found."
NoUsableSourcesMsg == "No usable video stream sources found on the page."
NoteScript == "Video source might be embedded in JavaScript."
NoteNoSources == "No direct video <src> or <source> tags found."

MsgTruthy(m) == m # NoMsg /\ m # ""

\* the template without its error
stream_data_template_NoError(video_page_url, error, note) ==
    [video_page_url |-> video_page_url, main_video_src |-> None, source_tags |-> <<>>,
     poster_image |-> None, sprite_previews |-> <<>>, error |-> NoMsg, note |-> note]

stream_data_template(video_page_url, error, note) ==
    [video_page_url |-> video_page_url, main_video_src |-> None, source_tags |-> <<>>,
     poster_image |-> None, sprite_previews |-> <<>>, error |-> error, note |-> note]

\* "has_attr('src') and video_tag['src'] and not video_tag['src'].startswith('blob:')"
MainVideoSrc(video_tag) ==
    IF video_tag.src # None /\ Truthy(video_tag.src)
       /\ ~StartsWith(video_tag.src, BlobPrefix)
    THEN video_tag.src ELSE None

\* the first loop: is some <source> child's src equal to main_video_src
MainSrcIsAlsoInSourceTags(source_elements, main_video_src) ==
    \E i \in 1..Len(source_elements) : source_elements[i].src = main_video_src

\* the test without "not src_url.startswith('blob:')"
IsNewSource_KeepBlob(src_url, processed_src_urls) ==
    Truthy(src_url) /\ src_url \notin processed_src_urls

\* "if src_url and not src_url.startswith('blob:') and src_url not in processed_src_urls"
IsNewSource(src_url, processed_src_urls) ==
    Truthy(src_url) /\ ~StartsWith(src_url, BlobPrefix)
    /\ src_url \notin processed_src_urls

\* the second loop over source_elements
RECURSIVE CollectSourceTags(_, _, _)
CollectSourceTags(source_elements, processed_src_urls, temp_sources) ==
    IF source_elements = <<>> THEN temp_sources
    ELSE LET source_el == Head(source_elements) IN
         IF IsNewSource(source_el.src, processed_src_urls)
         THEN CollectSourceTags(Tail(source_elements),
                  processed_src_urls \cup {source_el.src},
                  Append(temp_sources,
                         [src |-> source_el.src,
                          type |-> source_el.type,
                          size |-> IF source_el.dsize # None
                                   THEN source_el.dsize ELSE source_el.size]))
         ELSE CollectSourceTags(Tail(source_elements), processed_src_urls, temp_sources)

\* the note of lines 717-726; a call that raises is reported in "raised"
NoteStep(stream_data, doc) ==
    IF stream_data.source_tags = <<>> /\ ~Truthy(stream_data.main_video_src)
       /\ "error" \notin DOMAIN stream_data
    THEN \* stream_data.get("note", "") is None here, and None + str raises a TypeError
         [raised |-> TRUE, data |-> stream_data]
    ELSE [raised |-> FALSE, data |-> stream_data]

scrape_video_page_for_streams(video_page_url, fetch) ==
    IF ~fetch.ok
    THEN [raised |-> FALSE,
          data |-> stream_data_template(video_page_url, FetchErrorMsg, NoMsg)]
    ELSE LET video_tag == FindVideoTag(fetch.doc) IN
         IF video_tag = NoElement
         THEN [raised |-> FALSE,
               data |-> stream_data_template(video_page_url, PlayerNotFoundMsg, NoMsg)]
         ELSE LET main_video_src == MainVideoSrc(video_tag)
                  processed_src_urls ==
                      IF Truthy(main_video_src) THEN {main_video_src} ELSE {}
                  temp_sources ==
                      IF Truthy(main_video_src)
                         /\ ~MainSrcIsAlsoInSourceTags(video_tag.sources, main_video_src)
                      THEN << [src |-> main_video_src,
                               type |-> IF video_tag.type # None
                                        THEN video_tag.type ELSE DefaultMime,
                               size |-> None] >>
                      ELSE <<>>
                  stream_data ==
                      [video_page_url |-> video_page_url,
                       main_video_src |-> main_video_src,
                       source_tags |-> CollectSourceTags(video_tag.sources,
                                           processed_src_urls, temp_sources),
                       poster_image |-> video_tag.poster,
                       sprite_previews |-> IF video_tag.preview # None
                                           THEN SpritePreviews(video_tag.preview)
                                           ELSE <<>>,
                       error |-> NoMsg,
                       note |-> NoMsg]
              IN  NoteStep(stream_data, fetch.doc)

BareHost == <<"h","q","p","o","r","n",".","x","x","x">>

HasScheme(link) == StartsWith(link, HttpSlashes) \/ StartsWith(link, HttpsSlashes)

\* the link StreamLinks.get scrapes: a link without a scheme that starts with
\* the site's host gets "https://" prepended; None when the link is rejected
NormalizedLink(video_page_link) ==
    IF HasScheme(video_page_link) THEN video_page_link
    ELSE IF StartsWith(video_page_link, BareHost)
         THEN HttpsSlashes \o video_page_link
         ELSE None

StreamLinksOutcome(video_page_link, fetch) ==
    IF NormalizedLink(video_page_link) = None
    THEN HttpError(400, "Invalid video_page_link. It must be a full URL.")
    ELSE LET r == scrape_video_page_for_streams(NormalizedLink(video_page_link), fetch)
             data == r.data
         IN  IF r.raised THEN HttpError(500, "Internal Server Error")
             ELSE IF data.error = PlayerNotFoundMsg
             THEN Outcome(404, data.error, <<>>, data)
             ELSE IF MsgTruthy(data.error) /\ data.error = FetchErrorMsg
             THEN Outcome(500, data.error, <<>>, data)
             ELSE IF ~Truthy(data.main_video_src) /\ data.source_tags = <<>>
                     /\ ~MsgTruthy(data.error)
             THEN OkStream([data EXCEPT
                              !.error = DictGet(data, "error", NoUsableSourcesMsg)])
             ELSE OkStream(data)

-----------------------------------------------------------------------------
(* Listing documents                                                        *)
(*                                                                          *)
(* Every element is a record.  "class" is the list of classes of the class  *)
(* attribute, an attribute that is not there is None, and the text of an    *)
(* element is the list of its text nodes.                                   *)

HasClass(el, c) == \E i \in 1..Len(el.class) : el.class[i] = c

\* bs4's class_ filter: one class matches any class of the element, a string of
\* several classes matches the whole class attribute only
ClassMatches(el, cls) ==
    IF Len(cls) = 1 THEN HasClass(el, cls[1]) ELSE el.class = cls

\* find(...): the first of the elements that satisfy the filter, or none
First(els) == IF els = <<>> THEN NoElement ELSE Head(els)

RECURSIVE JoinPieces(_, _)
JoinPieces(pieces, sep) ==
    IF pieces = <<>> THEN <<>>
    ELSE IF Len(pieces) = 1 THEN pieces[1]
    ELSE pieces[1] \o sep \o JoinPieces(Tail(pieces), sep)

\* the text nodes below an element: its own and those of its <span>
TextNodes(el) ==
    IF "span" \in DOMAIN el /\ el.span # NoElement
    THEN el.text \o el.span.text ELSE el.text

\* el.get_text(separator=sep, strip=True)
GetTextStrip(el, sep) == JoinPieces(StripNonEmpty(TextNodes(el)), sep)

\* el.text.strip()
TextStrip(el) == Strip(JoinPieces(TextNodes(el), <<>>))

\* dict.get(key) of an attribute with a default for a missing attribute
AttrOr(value, default) == IF value # None THEN value ELSE default

ImageUrls(img_src, jpeg, webp) == [img_src |-> img_src, jpeg |-> jpeg, webp |-> webp]

\* source['srcset'] if source and source.has_attr('srcset') else None
SrcsetOrNone(source) ==
    IF source # NoElement /\ source.srcset # None THEN source.srcset ELSE None

\* img_tag.get('data-src', img_tag.get('src'))
LazySrc(img_tag) == IF img_tag.dsrc # None THEN img_tag.dsrc ELSE img_tag.src

\* the three fields read from a chosen <picture> (lines 127-140 of app1.py, and
\* the same statements of every listing function of app.py)
PictureUrls(picture_tag) ==
    IF picture_tag = NoElement THEN ImageUrls(None, None, None)
    ELSE ImageUrls(IF picture_tag.img # NoElement THEN LazySrc(picture_tag.img) ELSE None,
                   SrcsetOrNone(picture_tag.jpeg),
                   SrcsetOrNone(picture_tag.webp))

IsGalleryImg(p) == HasClass(p, "js-gallery-img")

\* item.find('picture', class_='js-gallery-img')
GalleryPicture(item) ==
    First(SelectSeq(item.pictures, IsGalleryImg))

\* item.find('picture')
FirstPicture(item) ==
    First(item.pictures)

\* app1.py: extract_image_urls
extract_image_urls(item_soup) ==
    PictureUrls(IF GalleryPicture(item_soup) # NoElement
                THEN GalleryPicture(item_soup) ELSE FirstPicture(item_soup))

\* f"{BASE_URL}{href}" if href and href.startswith('/') else href
ResolveHref(href) ==
    IF Truthy(href) /\ StartsWith(href, <<"/">>) THEN BASE_URL \o href ELSE href

\* the primary anchor of an item, found by class
AnchorByClass(item, cls) ==
    IF item.a # NoElement /\ ClassMatches(item.a, cls) THEN item.a ELSE NoElement

\* the div.b-thumb-item__title of an item, found by class
TitleByClass(item, cls) ==
    IF item.title # NoElement /\ ClassMatches(item.title, cls)
    THEN item.title ELSE NoElement

\* "random-thumb" in item.get("class", [])
IsRandomThumb(item) == HasClass(item, "random-thumb")

-----------------------------------------------------------------------------
(* app1.py: the item loop of scrape_generic_video_list_page, repeated        *)
(* statement for statement in scrape_search_page                             *)

\* the record with its preview resolved against the origin like a link
VideoData_ResolvedPreview(duration, gallery_id, image_urls, link, preview_video_url, tags, thumb_id, title, title_attribute) ==
    [duration |-> duration, gallery_id |-> gallery_id, image_urls |-> image_urls,
     link |-> link, preview_video_url |-> ResolveHref(preview_video_url), tags |-> tags,
     thumb_id |-> thumb_id, title |-> title, title_attribute |-> title_attribute]

VideoData(duration, gallery_id, image_urls, link, preview_video_url, tags, thumb_id, title, title_attribute) ==
    [duration |-> duration, gallery_id |-> gallery_id, image_urls |-> image_urls,
     link |-> link, preview_video_url |-> preview_video_url, tags |-> tags,
     thumb_id |-> thumb_id, title |-> title, title_attribute |-> title_attribute]

\* duration_span.get_text(strip=True) of the <span> in div.b-thumb-item__duration
Duration1(item) ==
    IF item.duration # NoElement /\ item.duration.span # NoElement
    THEN GetTextStrip(item.duration.span, <<>>) ELSE None

\* the tag comprehension: anchors of div.b-thumb-item__detail with href and text
RECURSIVE Tags1(_)
Tags1(tag_links) ==
    IF tag_links = <<>> THEN <<>>
    ELSE LET link_a == Head(tag_links) IN
         IF Truthy(link_a.href) /\ GetTextStrip(link_a, <<>>) # <<>>
         THEN << [link |-> IF StartsWith(AttrOr(link_a.href, Empty), <<"/">>)
                           THEN BASE_URL \o link_a.href ELSE link_a.href,
                  name |-> GetTextStrip(link_a, <<>>)] >> \o Tags1(Tail(tag_links))
         ELSE Tags1(Tail(tag_links))

\* a Tag for every anchor of the detail element
DetailTags1_KeepAll(item) ==
    IF item.detail # NoElement
    THEN [i \in 1..Len(item.detail.links) |->
             [link |-> item.detail.links[i].href,
              name |-> GetTextStrip(item.detail.links[i], <<>>)]]
    ELSE <<>>

DetailTags1(item) ==
    IF item.detail # NoElement THEN Tags1(item.detail.links) ELSE <<>>

\* "if link or title"
IsValidVideo1(link, title) == Truthy(link) \/ Truthy(title)

\* one iteration for an item that is not skipped: the record, and whether it
\* is appended
ParseVideoItem1(item) ==
    LET title_elem == TitleByClass(item, <<"b-thumb-item__title">>)
        title0 == IF title_elem # NoElement THEN GetTextStrip(title_elem, <<>>) ELSE None
        link_elem == AnchorByClass(item, <<"js-gallery-link">>)
        found == link_elem # NoElement
        link == IF found THEN ResolveHref(link_elem.href) ELSE None
        title_attribute == IF found THEN link_elem.title ELSE None
        title == IF ~Truthy(title0) THEN title_attribute ELSE title0
    IN  [emit |-> IsValidVideo1(link, title),
         video |-> VideoData(Duration1(item),
                             IF found THEN link_elem.gid ELSE None,
                             extract_image_urls(item),
                             link,
                             IF found THEN link_elem.preview ELSE None,
                             DetailTags1(item),
                             IF found THEN link_elem.tid ELSE None,
                             title,
                             title_attribute)]

\* "if 'random-thumb' in item.get('class', []): continue"
SkipsItem1(item) == IsRandomThumb(item)

RECURSIVE VideoLoop1(_)
VideoLoop1(items) ==
    IF items = <<>> THEN <<>>
    ELSE LET item == Head(items) IN
         IF SkipsItem1(item) THEN VideoLoop1(Tail(items))
         ELSE IF ParseVideoItem1(item).emit
         THEN <<ParseVideoItem1(item).video>> \o VideoLoop1(Tail(items))
         ELSE VideoLoop1(Tail(items))

-----------------------------------------------------------------------------

(* Listing pages and URLs *)

Slash == <<"/">>
Fresh == <<"f","r","e","s","h">>
Best == <<"b","e","s","t">>
Trend == <<"t","r","e","n","d">>
Search == <<"s","e","a","r","c","h">>
Categories == <<"c","a","t","e","g","o","r","i","e","s">>
Pornstars == <<"p","o","r","n","s","t","a","r","s">>
Channels == <<"c","h","a","n","n","e","l","s">>

DigitChars == <<"0","1","2","3","4","5","6","7","8","9">>

\* str(n) of a number that is not negative
RECURSIVE Str(_)
Str(n) ==
    IF n < 10 THEN <<DigitChars[n + 1]>>
    ELSE Str(n \div 10) \o <<DigitChars[(n % 10) + 1]>>

\* urllib.parse.quote on the characters of the model: a space becomes %20,
\* letters and '/' stay
RECURSIVE Quote(_)
Quote(s) ==
    IF s = <<>> THEN <<>>
    ELSE IF Head(s) = " " THEN <<"%","2","0">> \o Quote(Tail(s))
    ELSE <<Head(s)>> \o Quote(Tail(s))

\* str.replace(pat, "")
RECURSIVE Remove(_, _)
Remove(s, pat) ==
    IF Len(s) < Len(pat) THEN s
    ELSE IF StartsWith(s, pat) THEN Remove(SubSeq(s, Len(pat) + 1, Len(s)), pat)
    ELSE <<Head(s)>> \o Remove(Tail(s), pat)

\* str.strip('/')
RECURSIVE StripSlashes(_)
StripSlashes(s) ==
    IF s # <<>> /\ Head(s) = "/" THEN StripSlashes(Tail(s))
    ELSE IF s # <<>> /\ s[Len(s)] = "/" THEN StripSlashes(SubSeq(s, 1, Len(s) - 1))
    ELSE s

\* soup.find('div', id='galleries', class_=cls): a listing page holds at most
\* one div#galleries, doc.container is its list class ("none": no such div)
ContainerFound(doc, cls) == doc.container = cls

\* container.find_all('div', class_=cls)
ItemsOfClass(doc, cls) == SelectSeq(doc.items, LAMBDA it : ClassMatches(it, cls))

-----------------------------------------------------------------------------
(* app1.py: the video listing functions *)

\* lines 149-154
ScrapeUrl1(section, page_number) ==
    IF section = Trend THEN BASE_URL \o Slash \o Trend \o Slash \o Str(page_number)
    ELSE IF page_number = 1 THEN BASE_URL \o Slash \o section \o Slash
    ELSE BASE_URL \o Slash \o section \o Slash \o Str(page_number) \o Slash

\* safe_scrape_page: an HTTPException(500) when the GET fails
FetchError1 == HttpError(500, "Failed to fetch or parse URL")

PageNumberError == HttpError(400, "Page number must be positive.")
SearchContentError == HttpError(400, "Search content cannot be empty.")

\* what is done with a page that has no div#galleries.js-gallery-list
MissingContainer1_Raises(doc) == HttpError(404, "Gallery list container not found")

MissingContainer1(doc) == OkList(<<>>)

\* lines 159-238: the page of a successful GET
VideoListOfPage1(doc) ==
    IF ~ContainerFound(doc, "js-gallery-list") THEN MissingContainer1(doc)
    ELSE OkList(VideoLoop1(ItemsOfClass(doc, <<"b-thumb-item">>)))

scrape_generic_video_list_page(section, page_number, fetch) ==
    IF page_number <= 0 THEN PageNumberError
    ELSE IF ~fetch.ok THEN FetchError1
    ELSE VideoListOfPage1(fetch.doc)

\* lines 251-254
SearchUrl1(search_content, page_number) ==
    IF page_number = 1
    THEN BASE_URL \o Slash \o Search \o Slash \o Quote(search_content) \o Slash
    ELSE BASE_URL \o Slash \o Search \o Slash \o Quote(search_content) \o Slash
         \o Str(page_number) \o Slash

\* the search function without its test of the "no results found" message
scrape_search_page_NoMessageCheck(search_content, page_number, fetch) ==
    IF page_number <= 0 THEN PageNumberError
    ELSE IF ~Truthy(search_content) THEN SearchContentError
    ELSE IF ~fetch.ok THEN FetchError1
    ELSE VideoListOfPage1(fetch.doc)

scrape_search_page(search_content, page_number, fetch) ==
    IF page_number <= 0 THEN PageNumberError
    ELSE IF ~Truthy(search_content) THEN SearchContentError
    ELSE IF ~fetch.ok THEN FetchError1
    ELSE IF fetch.doc.descr = "noresults" THEN OkList(<<>>)
    ELSE VideoListOfPage1(fetch.doc)

\* FastAPI's Path(..., gt=0): a page number that is not positive is answered
\* 422 before the endpoint function runs
\* a path parameter without the gt=0 constraint: the endpoint function runs
PathGt0_Unconstrained(page_number, outcome) == outcome

PathGt0(page_number, outcome) ==
    IF page_number <= 0
    THEN HttpError(422, "page_number: ensure this value is greater than 0")
    ELSE outcome

\* one iteration of the loop of scrape_videos_endpoint (lines 647-707)
ParseVideoItemEndpoint1(item) ==
    LET title_elem == TitleByClass(item, <<"b-thumb-item__title", "js-gallery-title">>)
        title0 == IF title_elem # NoElement THEN GetTextStrip(title_elem, <<>>) ELSE None
        link_elem == AnchorByClass(item, <<"js-gallery-stats", "js-gallery-link">>)
        found == link_elem # NoElement
        link == IF found THEN ResolveHref(link_elem.href) ELSE None
        title_attribute == IF found /\ Truthy(link_elem.title)
                           THEN link_elem.title ELSE title0
        title == IF ~Truthy(title0) THEN title_attribute ELSE title0
    IN  [emit |-> IsValidVideo1(link, title),
         video |-> VideoData(Duration1(item),
                             IF found THEN link_elem.gid ELSE None,
                             extract_image_urls(item),
                             link,
                             IF found THEN link_elem.preview ELSE None,
                             DetailTags1(item),
                             IF found THEN link_elem.tid ELSE None,
                             title,
                             title_attribute)]

RECURSIVE VideoLoopEndpoint1(_)
VideoLoopEndpoint1(items) ==
    IF items = <<>> THEN <<>>
    ELSE LET item == Head(items) IN
         IF IsRandomThumb(item) THEN VideoLoopEndpoint1(Tail(items))
         ELSE IF ParseVideoItemEndpoint1(item).emit
         THEN <<ParseVideoItemEndpoint1(item).video>> \o VideoLoopEndpoint1(Tail(items))
         ELSE VideoLoopEndpoint1(Tail(items))

GenericItemClass == <<"b-thumb-item", "js-thumb-item", "js-thumb">>

\* line 625: the section guessed from the URL of the request
GuessedSection(url) == StripSlashes(Remove(url, BASE_URL \o Slash))

\* POST /scrape-videos: the call of line 625 (whose list is dropped) and then
\* the GET and the loop of lines 631-719
ScrapeVideosOutcome(url, fetch1, fetch2) ==
    LET first == scrape_generic_video_list_page(GuessedSection(url), 1, fetch1) IN
    IF first.status # 200 THEN first
    ELSE IF ~fetch2.ok THEN HttpError(500, "Error fetching URL")
    ELSE LET soup == fetch2.doc
             videos == VideoLoopEndpoint1(ItemsOfClass(soup, GenericItemClass))
         IN  IF videos = <<>>
             THEN IF soup.container = "none"
                     /\ ItemsOfClass(soup, <<"b-thumb-item">>) = <<>>
                  THEN HttpError(404, "The provided URL does not appear to be a recognizable video listing page.")
                  ELSE OkList(<<>>)
             ELSE OkList(videos)

-----------------------------------------------------------------------------

(* app.py: the video listing functions.  scrape_hqporn_fresh_page,           *)
(* scrape_hqporn_best_page, scrape_hqporn_trend_page and                     *)
(* scrape_hqporn_search_page hold the same statements after the GET; the     *)
(* endpoints marshal each dict with video_model, which turns a missing key   *)
(* into None                                                                 *)

NotApplicable == <<"N","/","A">>
Unknown == <<"U","n","k","n","o","w","n">>

\* the image_urls dict of lines 317-325: keys are set only for what is found
ImageDict(picture_tag) ==
    IF picture_tag = NoElement THEN [k \in {} |-> None]
    ELSE IF picture_tag.img = NoElement
    THEN [webp |-> SrcsetOrNone(picture_tag.webp), jpeg |-> SrcsetOrNone(picture_tag.jpeg)]
    ELSE [webp |-> SrcsetOrNone(picture_tag.webp), jpeg |-> SrcsetOrNone(picture_tag.jpeg),
          img_src |-> LazySrc(picture_tag.img)]

\* fields.Nested(ImageURLs) of the response models
MarshalImageUrls(d) ==
    ImageUrls(DictGet(d, "img_src", None), DictGet(d, "jpeg", None), DictGet(d, "webp", None))

\* duration_span.text.strip()
DurationFlask(item) ==
    IF item.duration # NoElement /\ item.duration.span # NoElement
    THEN TextStrip(item.duration.span) ELSE None

\* lines 332-337
RECURSIVE TagsFlask(_)
TagsFlask(tag_links) ==
    IF tag_links = <<>> THEN <<>>
    ELSE LET tag_a == Head(tag_links)
             tag_name == TextStrip(tag_a)
             tag_link_relative == tag_a.href
         IN  IF Truthy(tag_name) /\ Truthy(tag_link_relative)
             THEN << [link |-> IF StartsWith(tag_link_relative, <<"/">>)
                               THEN BASE_URL \o tag_link_relative
                               ELSE tag_link_relative,
                      name |-> tag_name] >> \o TagsFlask(Tail(tag_links))
             ELSE TagsFlask(Tail(tag_links))

\* one iteration of the loop of lines 303-339 for an item with a link tag
ParseVideoItemFlask(item_soup) ==
    LET link_tag == AnchorByClass(item_soup, <<"js-gallery-link">>)
        title_div == TitleByClass(item_soup, <<"b-thumb-item__title">>)
        data == [link |-> ResolveHref(link_tag.href),
                 gallery_id |-> link_tag.gid,
                 thumb_id |-> link_tag.tid,
                 preview_video_url |-> link_tag.preview,
                 title_attribute |-> link_tag.title]
    IN  VideoData(DurationFlask(item_soup),
                  data.gallery_id,
                  MarshalImageUrls(ImageDict(GalleryPicture(item_soup))),
                  data.link,
                  data.preview_video_url,
                  IF item_soup.detail # NoElement
                  THEN TagsFlask(item_soup.detail.links) ELSE <<>>,
                  data.thumb_id,
                  IF title_div # NoElement THEN GetTextStrip(title_div, <<" ">>)
                  ELSE DictGet(data, "title_attribute", NotApplicable),
                  data.title_attribute)

\* "else: continue" of line 313: an item without a link tag is passed over
RECURSIVE VideoLoopFlask(_)
VideoLoopFlask(items) ==
    IF items = <<>> THEN <<>>
    ELSE IF AnchorByClass(Head(items), <<"js-gallery-link">>) = NoElement
    THEN VideoLoopFlask(Tail(items))
    ELSE <<ParseVideoItemFlask(Head(items))>> \o VideoLoopFlask(Tail(items))

\* the result of a scraping function of app.py: None after a failed GET, else a list
ScrapeFailed_AsEmpty == [failed |-> FALSE, list |-> <<>>]

ScrapeFailed == [failed |-> TRUE, list |-> <<>>]

Scraped(list) == [failed |-> FALSE, list |-> list]

\* lines 287-340, from the GET on
ScrapeVideoPageFlask(fetch) ==
    IF ~fetch.ok THEN ScrapeFailed
    ELSE IF ~ContainerFound(fetch.doc, "js-gallery-list") THEN Scraped(<<>>)
    ELSE Scraped(VideoLoopFlask(ItemsOfClass(fetch.doc, <<"b-thumb-item">>)))

\* lines 281-283 and the same lines of the other paginated functions
ScrapeUrlFlask(section, page_number) ==
    IF page_number = 1 THEN BASE_URL \o Slash \o section \o Slash
    ELSE BASE_URL \o Slash \o section \o Slash \o Str(page_number) \o Slash

\* the body shared by the paginated endpoints (FreshVideos.get, ...)
PaginatedGet(page_number, data, failure) ==
    IF page_number <= 0 THEN PageNumberError
    ELSE IF data.failed THEN HttpError(500, failure)
    ELSE OkList(data.list)

\* the route converter <int:page_number> matches digits only: a request with a
\* negative page number matches no route and is answered 404 before any
\* handler runs
IntConverter(page_number, outcome) ==
    IF page_number < 0
    THEN HttpError(404, "The requested URL was not found on the server.")
    ELSE outcome

FreshVideosOutcome(page_number, fetch) ==
    PaginatedGet(page_number, ScrapeVideoPageFlask(fetch),
                 "Failed to scrape fresh videos page.")

BestVideosOutcome(page_number, fetch) ==
    PaginatedGet(page_number, ScrapeVideoPageFlask(fetch),
                 "Failed to scrape best videos page.")

TrendVideosOutcome(page_number, fetch) ==
    PaginatedGet(page_number, ScrapeVideoPageFlask(fetch),
                 "Failed to scrape trending videos page.")

SearchResultsOutcome(search_content, page_number, fetch) ==
    IF ~Truthy(search_content) THEN SearchContentError
    ELSE PaginatedGet(page_number, ScrapeVideoPageFlask(fetch),
                      "Failed to scrape search results page.")

-----------------------------------------------------------------------------
(* app.py: scrape_generic_page_videos and GenericVideoScraper.post *)

\* item.find("a", href=True): the first anchor of the item that has an href
FirstAnchorWithHref(item) ==
    IF item.a # NoElement /\ item.a.href # None THEN item.a
    ELSE IF item.detail = NoElement THEN NoElement
    ELSE First(SelectSeq(item.detail.links, LAMBDA l : l.href # None))

\* item.find("img")
FirstImg(item) ==
    LET p == First(SelectSeq(item.pictures, LAMBDA x : x.img # NoElement)) IN
    IF p = NoElement THEN NoElement ELSE p.img

\* item.find("source", type="image/jpeg") and the same for webp
FirstJpegSource(item) ==
    LET p == First(SelectSeq(item.pictures, LAMBDA x : x.jpeg # NoElement)) IN
    IF p = NoElement THEN NoElement ELSE p.jpeg

FirstWebpSource(item) ==
    LET p == First(SelectSeq(item.pictures, LAMBDA x : x.webp # NoElement)) IN
    IF p = NoElement THEN NoElement ELSE p.webp

SrcsetOrEmpty(source) ==
    IF source # NoElement /\ source.srcset # None THEN source.srcset ELSE Empty

\* lines 197-225
GenericImages(item) ==
    LET img_elem == FirstImg(item)
        picture_tag == GalleryPicture(item)
        first ==
            IF picture_tag # NoElement
            THEN ImageUrls(IF picture_tag.img = NoElement THEN Empty
                           ELSE IF picture_tag.img.dsrc # None THEN picture_tag.img.dsrc
                           ELSE AttrOr(picture_tag.img.src, Empty),
                           SrcsetOrEmpty(picture_tag.jpeg),
                           SrcsetOrEmpty(picture_tag.webp))
            ELSE IF img_elem # NoElement /\ img_elem.src # None
            THEN ImageUrls(img_elem.src, img_elem.src, Empty)
            ELSE ImageUrls(Empty, Empty, Empty)
    IN  IF ~Truthy(first.jpeg) /\ ~Truthy(first.webp) /\ img_elem # NoElement
        THEN LET img_src_from_fastapi == AttrOr(img_elem.src, Empty)
                 jpeg_source == FirstJpegSource(item)
                 webp_source == FirstWebpSource(item)
                 jpeg_from_fastapi ==
                     IF jpeg_source # NoElement /\ jpeg_source.srcset # None
                     THEN jpeg_source.srcset ELSE img_src_from_fastapi
                 webp_from_fastapi == SrcsetOrEmpty(webp_source)
             IN  ImageUrls(IF ~Truthy(first.img_src) THEN img_src_from_fastapi
                           ELSE first.img_src,
                           IF ~Truthy(first.jpeg) THEN jpeg_from_fastapi ELSE first.jpeg,
                           IF ~Truthy(first.webp) THEN webp_from_fastapi ELSE first.webp)
        ELSE first

\* href if href.startswith("http") else (f"{BASE_URL}{href}" if href else "")
GenericLink(href) ==
    IF StartsWith(href, HttpPrefix) THEN href
    ELSE IF Truthy(href) THEN BASE_URL \o href ELSE Empty

\* lines 241-250
RECURSIVE TagsGeneric(_)
TagsGeneric(category_links) ==
    IF category_links = <<>> THEN <<>>
    ELSE LET cat_link_elem == Head(category_links)
             cat_name == GetTextStrip(cat_link_elem, <<>>)
             full_cat_link == GenericLink(AttrOr(cat_link_elem.href, Empty))
         IN  IF Truthy(cat_name) /\ Truthy(full_cat_link)
             THEN <<[link |-> full_cat_link, name |-> cat_name]>>
                  \o TagsGeneric(Tail(category_links))
             ELSE TagsGeneric(Tail(category_links))

\* one iteration of the loop of lines 175-268 for an item that is not skipped
ParseVideoItemGeneric(item) ==
    LET title_elem == TitleByClass(item, <<"b-thumb-item__title", "js-gallery-title">>)
        title == IF title_elem # NoElement THEN GetTextStrip(title_elem, <<>>) ELSE Unknown
        by_class == AnchorByClass(item, <<"js-gallery-stats", "js-gallery-link">>)
        link_elem == IF by_class # NoElement THEN by_class ELSE FirstAnchorWithHref(item)
        found == link_elem # NoElement
        title_attribute == IF found /\ Truthy(link_elem.title)
                           THEN Strip(link_elem.title) ELSE title
        duration == IF item.duration # NoElement /\ item.duration.span # NoElement
                    THEN GetTextStrip(item.duration.span, <<>>) ELSE NotApplicable
    IN  VideoData(duration,
                  IF found THEN AttrOr(link_elem.gid, Unknown) ELSE Unknown,
                  GenericImages(item),
                  IF found THEN GenericLink(AttrOr(link_elem.href, Empty)) ELSE Empty,
                  IF found THEN AttrOr(link_elem.preview, Empty) ELSE Empty,
                  IF item.detail # NoElement
                  THEN TagsGeneric(item.detail.links) ELSE <<>>,
                  IF found THEN AttrOr(link_elem.tid, Unknown) ELSE Unknown,
                  title,
                  title_attribute)

RECURSIVE VideoLoopGeneric(_)
VideoLoopGeneric(items) ==
    IF items = <<>> THEN <<>>
    ELSE IF IsRandomThumb(Head(items)) THEN VideoLoopGeneric(Tail(items))
    ELSE <<ParseVideoItemGeneric(Head(items))>> \o VideoLoopGeneric(Tail(items))

\* the list of a successful GET; a failed GET aborts with 500 inside the function
scrape_generic_page_videos(fetch) ==
    VideoLoopGeneric(ItemsOfClass(fetch.doc, GenericItemClass))

TargetUrlIsValid(target_url) == Truthy(target_url) /\ HasScheme(target_url)

\* "if not videos_data: api.abort(404, ...)"
NoVideosFound ==
    HttpError(404, "No videos found on the provided webpage, or the page structure is not recognized by this scraper.")

GenericVideoScraperOutcome(target_url, fetch) ==
    IF ~TargetUrlIsValid(target_url)
    THEN HttpError(400, "A valid, full URL starting with http:// or https:// must be provided.")
    ELSE IF ~fetch.ok THEN HttpError(500, "Error fetching webpage")
    ELSE IF scrape_generic_page_videos(fetch) = <<>> THEN NoVideosFound
    ELSE OkList(scrape_generic_page_videos(fetch))

-----------------------------------------------------------------------------

(* Category, pornstar and channel listings.  A record is                    *)
(* [link, id, name, image_urls]: id is category_id / pornstar_id /          *)
(* channel_id and name is the title of a category                           *)

EntityData(link, id, name, image_urls) ==
    [link |-> link, id |-> id, name |-> name, image_urls |-> image_urls]

\* link_tag.get('title', '').strip()
StrippedTitle(link_tag) == Strip(AttrOr(link_tag.title, Empty))

\* app1.py: "if link and title" (line 391), "if link and name" (lines 455, 520)
IsValidEntity1_Either(link, name) == Truthy(link) \/ Truthy(name)

IsValidEntity1(link, name) == Truthy(link) /\ Truthy(name)

\* app1.py lines 370-399
ParseCategoryItem1(item_soup) ==
    LET link_tag == AnchorByClass(item_soup, <<"js-category-stats">>)
        found == link_tag # NoElement
        link == IF found THEN ResolveHref(link_tag.href) ELSE None
        title0 == IF found THEN StrippedTitle(link_tag) ELSE None
        title_div == TitleByClass(item_soup, <<"b-thumb-item__title">>)
        title == IF title_div # NoElement /\ GetTextStrip(title_div, <<>>) # <<>>
                    /\ (~Truthy(title0)
                        \/ Len(title0) < Len(GetTextStrip(title_div, <<>>)))
                 THEN GetTextStrip(title_div, <<>>) ELSE title0
    IN  [emit |-> IsValidEntity1(link, title),
         entry |-> EntityData(link, IF found THEN link_tag.gid ELSE None, title,
                              extract_image_urls(item_soup))]

\* app1.py lines 436-463
ParsePornstarItem1(item_soup) ==
    LET link_tag == AnchorByClass(item_soup, <<"js-pornstar-stats">>)
        found == link_tag # NoElement
        link == IF found THEN ResolveHref(link_tag.href) ELSE None
        name0 == IF found THEN StrippedTitle(link_tag) ELSE None
        title_div == TitleByClass(item_soup, <<"b-thumb-item__title">>)
        name == IF title_div # NoElement /\ GetTextStrip(title_div, <<>>) # <<>>
                   /\ ~Truthy(name0)
                THEN GetTextStrip(title_div, <<>>) ELSE name0
    IN  [emit |-> IsValidEntity1(link, name),
         entry |-> EntityData(link, IF found THEN link_tag.gid ELSE None, name,
                              extract_image_urls(item_soup))]

\* app1.py lines 497-528
ParseChannelItem1(item_soup) ==
    LET link_tag == AnchorByClass(item_soup, <<"js-channel-stats">>)
        found == link_tag # NoElement
        link == IF found THEN ResolveHref(link_tag.href) ELSE None
        name0 == IF found THEN StrippedTitle(link_tag) ELSE None
        title_div == TitleByClass(item_soup, <<"b-thumb-item__title">>)
        has_span == title_div # NoElement /\ title_div.span # NoElement
                    /\ GetTextStrip(title_div.span, <<>>) # <<>>
        name == IF has_span
                   /\ (~Truthy(name0)
                       \/ Len(GetTextStrip(title_div.span, <<>>)) > Len(name0))
                THEN GetTextStrip(title_div.span, <<>>) ELSE name0
    IN  [emit |-> IsValidEntity1(link, name),
         entry |-> EntityData(link, IF found THEN link_tag.gid ELSE None, name,
                              extract_image_urls(item_soup))]

\* the item loop with every record put in front of the list
EntityLoop_Reversed(parsed) ==
    LET kept == SelectSeq(parsed, LAMBDA r : r.emit)
    IN  [i \in 1..Len(kept) |-> kept[Len(kept) + 1 - i].entry]

\* the item loop: the records of the items that pass the gate, in page order
EntityLoop(parsed) ==
    LET kept == SelectSeq(parsed, LAMBDA r : r.emit)
    IN  [i \in 1..Len(kept) |-> kept[i].entry]

\* app1.py lines 349-351: no slash after the page number of a category page
CategoryUrl1(page_number) ==
    IF page_number = 1 THEN BASE_URL \o Slash \o Categories \o Slash
    ELSE BASE_URL \o Slash \o Categories \o Slash \o Str(page_number)

scrape_category_list_page(page_number, fetch) ==
    IF page_number <= 0 THEN PageNumberError
    ELSE IF ~fetch.ok THEN FetchError1
    ELSE IF ~ContainerFound(fetch.doc, "js-category-list") THEN OkList(<<>>)
    ELSE OkList(EntityLoop(
             LET items == ItemsOfClass(fetch.doc, <<"b-thumb-item--cat">>)
             IN  [i \in 1..Len(items) |-> ParseCategoryItem1(items[i])]))

scrape_pornstar_list_page(page_number, fetch) ==
    IF page_number <= 0 THEN PageNumberError
    ELSE IF ~fetch.ok THEN FetchError1
    ELSE IF ~ContainerFound(fetch.doc, "js-pornstar-list") THEN OkList(<<>>)
    ELSE OkList(EntityLoop(
             LET items == ItemsOfClass(fetch.doc, <<"b-thumb-item--star">>)
             IN  [i \in 1..Len(items) |-> ParsePornstarItem1(items[i])]))

scrape_channel_list_page(page_number, fetch) ==
    IF page_number <= 0 THEN PageNumberError
    ELSE IF ~fetch.ok THEN FetchError1
    ELSE IF ~ContainerFound(fetch.doc, "js-channel-list") THEN OkList(<<>>)
    ELSE OkList(EntityLoop(
             LET items == ItemsOfClass(fetch.doc, <<"b-thumb-item--cat">>)
             IN  [i \in 1..Len(items) |-> ParseChannelItem1(items[i])]))

\* app.py: "if data.get('name') and data.get('link')" (lines 504, 552, 597)
IsValidEntityFlask(link, name) == Truthy(name) /\ Truthy(link)

\* app.py lines 483-504; an item without a link tag is passed over
ParsePornstarItemFlask(item_soup) ==
    LET link_tag == AnchorByClass(item_soup, <<"js-pornstar-stats">>)
        found == link_tag # NoElement
        link == IF found THEN ResolveHref(link_tag.href) ELSE None
        name0 == IF found THEN StrippedTitle(link_tag) ELSE None
        title_div == TitleByClass(item_soup, <<"b-thumb-item__title">>)
        name == IF title_div # NoElement /\ GetTextStrip(title_div, <<>>) # <<>>
                   /\ ~Truthy(name0)
                THEN GetTextStrip(title_div, <<>>) ELSE name0
    IN  [emit |-> found /\ IsValidEntityFlask(link, name),
         entry |-> EntityData(link, IF found THEN link_tag.gid ELSE None, name,
                              MarshalImageUrls(ImageDict(FirstPicture(item_soup))))]

\* app.py lines 528-552
ParseChannelItemFlask(item_soup) ==
    LET link_tag == AnchorByClass(item_soup, <<"js-channel-stats">>)
        found == link_tag # NoElement
        link == IF found THEN ResolveHref(link_tag.href) ELSE None
        name0 == IF found THEN StrippedTitle(link_tag) ELSE None
        title_div == TitleByClass(item_soup, <<"b-thumb-item__title">>)
        name == IF title_div = NoElement THEN name0
                ELSE IF title_div.span # NoElement
                        /\ GetTextStrip(title_div.span, <<>>) # <<>>
                THEN GetTextStrip(title_div.span, <<>>)
                ELSE IF ~Truthy(name0) /\ GetTextStrip(title_div, <<>>) # <<>>
                THEN GetTextStrip(title_div, <<>>)
                ELSE name0
    IN  [emit |-> found /\ IsValidEntityFlask(link, name),
         entry |-> EntityData(link, IF found THEN link_tag.gid ELSE None, name,
                              MarshalImageUrls(ImageDict(FirstPicture(item_soup))))]

\* app.py lines 576-597
ParseCategoryItemFlask(item_soup) ==
    LET link_tag == AnchorByClass(item_soup, <<"js-category-stats">>)
        found == link_tag # NoElement
        link == IF found THEN ResolveHref(link_tag.href) ELSE None
        title0 == IF found THEN StrippedTitle(link_tag) ELSE None
        title_div == TitleByClass(item_soup, <<"b-thumb-item__title">>)
        title == IF title_div # NoElement /\ GetTextStrip(title_div, <<>>) # <<>>
                    /\ ~Truthy(title0)
                 THEN GetTextStrip(title_div, <<>>) ELSE title0
    IN  [emit |-> found /\ IsValidEntityFlask(link, title),
         entry |-> EntityData(link, IF found THEN link_tag.gid ELSE None, title,
                              MarshalImageUrls(ImageDict(FirstPicture(item_soup))))]

scrape_hqporn_pornstars_page(fetch) ==
    IF ~fetch.ok THEN ScrapeFailed
    ELSE IF ~ContainerFound(fetch.doc, "js-pornstar-list") THEN Scraped(<<>>)
    ELSE Scraped(EntityLoop(
             LET items == ItemsOfClass(fetch.doc, <<"b-thumb-item--star">>)
             IN  [i \in 1..Len(items) |-> ParsePornstarItemFlask(items[i])]))

scrape_hqporn_channels_page(fetch) ==
    IF ~fetch.ok THEN ScrapeFailed
    ELSE IF ~ContainerFound(fetch.doc, "js-channel-list") THEN Scraped(<<>>)
    ELSE Scraped(EntityLoop(
             LET items == ItemsOfClass(fetch.doc, <<"b-thumb-item--cat">>)
             IN  [i \in 1..Len(items) |-> ParseChannelItemFlask(items[i])]))

scrape_hqporn_categories_page(fetch) ==
    IF ~fetch.ok THEN ScrapeFailed
    ELSE IF ~ContainerFound(fetch.doc, "js-category-list") THEN Scraped(<<>>)
    ELSE Scraped(EntityLoop(
             LET items == ItemsOfClass(fetch.doc, <<"b-thumb-item--cat">>)
             IN  [i \in 1..Len(items) |-> ParseCategoryItemFlask(items[i])]))

PornstarsOutcome(page_number, fetch) ==
    PaginatedGet(page_number, scrape_hqporn_pornstars_page(fetch),
                 "Failed to scrape pornstars page.")

ChannelsOutcome(page_number, fetch) ==
    PaginatedGet(page_number, scrape_hqporn_channels_page(fetch),
                 "Failed to scrape channels page.")

CategoriesOutcome(page_number, fetch) ==
    PaginatedGet(page_number, scrape_hqporn_categories_page(fetch),
                 "Failed to scrape categories page.")

-----------------------------------------------------------------------------
(* The pages of the model *)

\* the largest number of items of a listing page
MaxItems == 2

Anchor(class, href, title, gid, tid, preview, text) ==
    [class |-> class, href |-> href, title |-> title, gid |-> gid, tid |-> tid,
     preview |-> preview, text |-> text]

TitleDiv(class, text, span) == [class |-> class, text |-> text, span |-> span]
TextEl(text) == [text |-> text]
Source(srcset) == [srcset |-> srcset]
Img(dsrc, src) == [dsrc |-> dsrc, src |-> src]
Picture(class, webp, jpeg, img) == [class |-> class, webp |-> webp, jpeg |-> jpeg, img |-> img]

Item(class, a, title, duration, pictures, detail) ==
    [class |-> class, a |-> a, title |-> title, duration |-> duration,
     pictures |-> pictures, detail |-> detail]

HrefRel == <<"/", "v">>
HrefBare == <<"v">>
HrefAbs == <<"h","t","t","p",":","v">>
TitleA == <<"T">>
TitleLong == <<"T", "i", "t">>
TitleSp == <<" ", "T", " ">>

FullAdClass == <<"b-thumb-item", "js-thumb-item", "js-thumb", "random-thumb">>
PlainClass == <<"b-thumb-item">>
PlainAdClass == <<"b-thumb-item", "random-thumb">>
ItemClasses == {GenericItemClass, PlainClass, FullAdClass, PlainAdClass, <<"b-other">>}

GalleryLinkClass == <<"js-gallery-stats", "js-gallery-link">>
GalleryTitleClass == <<"b-thumb-item__title", "js-gallery-title">>

GalleryAnchor(href, title, preview) ==
    Anchor(GalleryLinkClass, href, title, <<"1">>, <<"2">>, preview, <<>>)

TagLink(href, text) == Anchor(<<>>, href, None, None, None, None, text)

VideoAnchors ==
    { NoElement,
      Anchor(GalleryLinkClass, None, None, None, None, None, <<>>),
      GalleryAnchor(Empty, Empty, None),
      GalleryAnchor(HrefRel, TitleA, HrefRel),
      GalleryAnchor(HrefBare, TitleSp, None),
      GalleryAnchor(HrefAbs, None, HrefAbs),
      Anchor(<<"js-gallery-link">>, HrefRel, TitleA, <<"1">>, None, None, <<>>),
      Anchor(<<"b-link">>, HrefRel, TitleA, None, None, None, <<>>) }

VideoTitles ==
    { NoElement,
      TitleDiv(GalleryTitleClass, <<>>, NoElement),
      TitleDiv(GalleryTitleClass, << <<" ">> >>, NoElement),
      TitleDiv(GalleryTitleClass, << <<"D">> >>, NoElement),
      TitleDiv(<<"b-thumb-item__title">>, << <<"M", " ">>, <<"C">> >>, NoElement) }

FullPicture(class) ==
    Picture(class, Source(<<"w">>), Source(<<"j">>), Img(<<"l">>, <<"s">>))

VideoPictures ==
    { <<>>,
      <<FullPicture(<<"js-gallery-img">>)>>,
      <<FullPicture(<<>>)>>,
      <<Picture(<<>>, NoElement, Source(<<"k">>), Img(None, <<"t">>)),
        FullPicture(<<"js-gallery-img">>)>>,
      <<Picture(<<"js-gallery-img">>, NoElement, NoElement, NoElement)>>,
      <<Picture(<<"js-gallery-img">>, Source(None), Source(Empty), Img(None, <<"s">>))>>,
      <<Picture(<<"js-gallery-img">>, Source(<<"w">>), NoElement, Img(Empty, <<"s">>))>>,
      <<Picture(<<>>, NoElement, NoElement, Img(None, None)),
        Picture(<<>>, Source(<<"w">>), NoElement, Img(None, <<"s">>))>> }

VideoDetails ==
    { NoElement,
      [links |-> <<>>],
      [links |-> <<TagLink(<<"/", "t">>, << <<"F">> >>)>>],
      [links |-> <<TagLink(None, << <<"F">> >>)>>],
      [links |-> <<TagLink(Empty, << <<"F">> >>)>>],
      [links |-> <<TagLink(<<"/", "t">>, << <<" ">> >>)>>],
      [links |-> <<TagLink(<<"t">>, << <<"F">> >>)>>],
      [links |-> <<TagLink(HrefAbs, << <<"F", " ">>, <<"o">> >>)>>],
      [links |-> <<TagLink(None, <<>>), TagLink(<<"/", "t">>, << <<"F">> >>),
                   TagLink(<<"/", "u">>, << <<"G">> >>)>>] }

VideoDurations ==
    { NoElement,
      [span |-> NoElement],
      [span |-> TextEl(<< <<" ", "1", ":", "2">> >>)],
      [span |-> TextEl(<< <<"1", " ">>, <<"2">> >>)] }

BaseAnchor == GalleryAnchor(HrefRel, TitleA, HrefRel)
BaseTitle == TitleDiv(GalleryTitleClass, << <<"D">> >>, NoElement)
BaseDuration == [span |-> TextEl(<< <<"1", ":", "2">> >>)]
BasePictures == <<FullPicture(<<"js-gallery-img">>)>>
BaseDetail == [links |-> <<TagLink(<<"/", "t">>, << <<"F">> >>)>>]

\* an anchor without href and title, and a title element without text
BlankAnchor == Anchor(GalleryLinkClass, None, None, None, None, None, <<>>)
BlankTitle == TitleDiv(GalleryTitleClass, <<>>, NoElement)

\* the video items: the base item with one or two of its parts varied
VideoItems ==
    { Item(c, BaseAnchor, BaseTitle, BaseDuration, BasePictures, BaseDetail) :
        c \in ItemClasses }
    \cup
    { Item(c, BlankAnchor, BlankTitle, NoElement, <<>>, NoElement) : c \in ItemClasses }
    \cup
    { Item(GenericItemClass, a, t, BaseDuration, BasePictures, BaseDetail) :
        a \in VideoAnchors, t \in VideoTitles }
    \cup
    { Item(GenericItemClass, a, BaseTitle, BaseDuration, BasePictures, d) :
        a \in {BaseAnchor, NoElement}, d \in VideoDetails }
    \cup
    { Item(GenericItemClass, BaseAnchor, BaseTitle, BaseDuration, p, NoElement) :
        p \in VideoPictures }
    \cup
    { Item(PlainClass, BaseAnchor, BaseTitle, d, <<>>, NoElement) : d \in VideoDurations }

\* the items that fill the other places of a page
CoreVideoItems ==
    { Item(GenericItemClass, BaseAnchor, BaseTitle, BaseDuration, BasePictures, BaseDetail),
      Item(PlainAdClass, BaseAnchor, BaseTitle, BaseDuration, BasePictures, BaseDetail),
      Item(PlainClass, BlankAnchor, BlankTitle, NoElement, <<>>, NoElement) }

\* the item lists of at most MaxItems items: any item in one place, core items
\* in the others
Pages(items, core) ==
    {<<>>} \cup
    UNION { { [i \in 1..k |-> IF i = at THEN x ELSE c[i]] : x \in items, c \in [1..k -> core] } :
            k \in 1..MaxItems, at \in 1..MaxItems }

EntityAnchors(cls) ==
    { NoElement,
      Anchor(cls, None, TitleA, <<"7">>, None, None, <<>>),
      Anchor(cls, Empty, TitleA, <<"7">>, None, None, <<>>),
      Anchor(cls, HrefRel, None, <<"7">>, None, None, <<>>),
      Anchor(cls, HrefRel, Empty, None, None, None, <<>>),
      Anchor(cls, HrefRel, <<" ">>, None, None, None, <<>>),
      Anchor(cls, HrefRel, TitleA, <<"7">>, None, None, <<>>),
      Anchor(cls, HrefRel, TitleLong, <<"7">>, None, None, <<>>),
      Anchor(cls, HrefBare, TitleA, <<"7">>, None, None, <<>>),
      Anchor(cls, HrefAbs, TitleSp, <<"7">>, None, None, <<>>),
      Anchor(<<"js-other-stats">>, HrefRel, TitleA, <<"7">>, None, None, <<>>) }

EntityTitles ==
    { NoElement,
      TitleDiv(<<"b-thumb-item__title">>, <<>>, NoElement),
      TitleDiv(<<"b-thumb-item__title">>, << <<"D", "i">> >>, NoElement),
      TitleDiv(<<"b-thumb-item__title">>, <<>>, TextEl(<< <<"S">> >>)),
      TitleDiv(<<"b-thumb-item__title">>, << <<"D">> >>, TextEl(<< <<"S", "p", "a", "n">> >>)),
      TitleDiv(<<"b-thumb-item__title">>, << <<"D">> >>, TextEl(<< <<" ">> >>)) }

EntityItems(itemClass, anchorClass) ==
    { Item(itemClass, a, t, NoElement, <<FullPicture(<<>>)>>, NoElement) :
        a \in EntityAnchors(anchorClass), t \in EntityTitles }
    \cup
    { Item(itemClass, Anchor(anchorClass, HrefRel, TitleA, <<"7">>, None, None, <<>>),
           NoElement, NoElement, p, NoElement) : p \in VideoPictures }
    \cup
    { Item(PlainClass, Anchor(anchorClass, HrefRel, TitleA, <<"7">>, None, None, <<>>),
           NoElement, NoElement, <<>>, NoElement) }

CoreEntityItems(itemClass, anchorClass) ==
    { Item(itemClass, Anchor(anchorClass, HrefRel, TitleA, <<"7">>, None, None, <<>>),
           NoElement, NoElement, <<FullPicture(<<>>)>>, NoElement),
      Item(itemClass, NoElement, TitleDiv(<<"b-thumb-item__title">>, << <<"D">> >>, NoElement),
           NoElement, <<>>, NoElement) }

\* a listing page: the list class of its div#galleries ("none": no div#galleries,
\* "plain": one without a list class), the item divs in page order, and the
\* div.b-catalog-info-descr ("none", "noresults": it says no results found, "other")
ListingDoc(container, items, descr) ==
    [container |-> container, items |-> items, descr |-> descr]

ContainerClasses ==
    {"none", "plain", "js-gallery-list", "js-category-list", "js-channel-list",
     "js-pornstar-list"}

\* the pages given to a listing operation whose container is "right": every
\* item list under the right container, and short lists under the others
ListingDocs(right, items, core) ==
    { ListingDoc(right, p, "none") : p \in Pages(items, core) }
    \cup
    { ListingDoc(c, p, "none") :
        c \in ContainerClasses \ {right}, p \in {<<>>} \cup {<<x>> : x \in core} }

PageNumbers == {-1, 0, 1, 2, 12}

\* the (page number, fetch result) pairs of a paginated request
PaginatedInputs(docs) ==
    ({1} \X ({FetchFailed} \cup {Fetched(d) : d \in docs}))
    \cup
    (PageNumbers \X ({FetchFailed} \cup {Fetched(ListingDoc("none", <<>>, "none"))}))

VideoDocs == ListingDocs("js-gallery-list", VideoItems, CoreVideoItems)

SearchDocs ==
    VideoDocs \cup
    { ListingDoc("js-gallery-list", p, d) :
        p \in {<<>>} \cup {<<x>> : x \in CoreVideoItems}, d \in {"noresults", "other"} }

CategoryDocs ==
    ListingDocs("js-category-list",
                EntityItems(<<"b-thumb-item--cat">>, <<"js-category-stats">>),
                CoreEntityItems(<<"b-thumb-item--cat">>, <<"js-category-stats">>))

ChannelDocs ==
    ListingDocs("js-channel-list",
                EntityItems(<<"b-thumb-item--cat">>, <<"js-channel-stats">>),
                CoreEntityItems(<<"b-thumb-item--cat">>, <<"js-channel-stats">>))

PornstarDocs ==
    ListingDocs("js-pornstar-list",
                EntityItems(<<"b-thumb-item--star">>, <<"js-pornstar-stats">>),
                CoreEntityItems(<<"b-thumb-item--star">>, <<"js-pornstar-stats">>))

\* search terms; the routes of both variants match no empty path segment
SearchContents == {<<"a">>, <<"a", " ", "b">>, <<" ">>}

-----------------------------------------------------------------------------
(* Requests *)

GoodLink == BASE_URL \o <<"/", "v">>
BareLink == BareHost \o <<"/", "v">>
HttpOnlyLink == <<"h","t","t","p","x">>
BadLink == <<"x">>

VideoPageLinks == {GoodLink, BareLink, HttpOnlyLink, BadLink, Empty}

\* the URLs posted to the scrape-videos endpoints
ListUrl == BASE_URL \o Slash \o Fresh \o Slash
TargetUrls == {ListUrl, BASE_URL \o Slash \o Trend, HrefAbs, BareLink, None}

NoRequest == [page_number |-> 0, search_content |-> None, url |-> None]
PageRequest(n) == [page_number |-> n, search_content |-> None, url |-> None]
SearchRequest(q, n) == [page_number |-> n, search_content |-> q, url |-> None]
UrlRequest(u) == [page_number |-> 0, search_content |-> None, url |-> u]

\* the (link, fetch result) pairs of a stream request: every page under the
\* good link, and every link with a page without a player
StreamInputs ==
    ({GoodLink} \X ({FetchFailed} \cup {Fetched(d) : d \in StreamDocs}))
    \cup
    (VideoPageLinks \X
        ({FetchFailed} \cup
         {Fetched(d) : d \in {x \in StreamDocs :
                                 x.idVideo = NoElement /\ x.playerVideo = NoElement}}))

\* the (url, fetch result) pairs of a scrape-videos request
GenericDocs ==
    { ListingDoc(c, p, "none") :
        c \in {"js-gallery-list", "none"}, p \in Pages(VideoItems, CoreVideoItems) }
    \cup
    { ListingDoc(c, <<>>, "none") : c \in ContainerClasses }

GenericInputs ==
    ({ListUrl} \X ({FetchFailed} \cup {Fetched(d) : d \in GenericDocs}))
    \cup
    (TargetUrls \X ({FetchFailed} \cup {Fetched(ListingDoc("none", <<>>, "none"))}))

-----------------------------------------------------------------------------
(* The state machine: a worker takes a request, runs its handler to the end  *)
(* (pc = "done": the outcome is in out, the GETs it made in gets and what    *)
(* they returned in fetched), and answers                                    *)

\* the threads that handle requests at the same time
Workers == {1, 2}

UserAgent == <<"M","o","z","i","l","l","a">>

\* the module-level names the handlers read, as the import leaves them
ModuleAtImport == [BASE_URL |-> BASE_URL, HEADERS |-> [UserAgent |-> UserAgent]]

\* no call is remembered
NoCall == [op |-> "none"]

\* the locals of a worker that handles no request
IdleFrame ==
    [pc |-> "idle", op |-> "none", page |-> 0, url |-> None, headers |-> None,
     fetch |-> FetchFailed, video_tag |-> NoElement, stream_data |-> NoStream,
     tags |-> 0, found |-> {}, todo |-> <<>>, out |-> HttpError(0, NoMsg)]

Init ==
    /\ pc = "idle"
    /\ op = "none"
    /\ req = NoRequest
    /\ gets = <<>>
    /\ fetched = <<>>
    /\ out = HttpError(0, NoMsg)
    /\ frame = [w \in Workers |-> IdleFrame]
    /\ heap = [w \in Workers |-> <<>>]
    /\ module = ModuleAtImport
    /\ earlier = NoCall

Handle(name, request, urls, results, outcome) ==
    /\ pc = "idle"
    /\ pc' = "done"
    /\ op' = name
    /\ req' = request
    /\ gets' = urls
    /\ fetched' = results
    /\ out' = outcome
    /\ UNCHANGED conc_vars

\* a handler that makes its one GET only when "issued"
HandleOneGet(name, request, issued, url, fetch, outcome) ==
    Handle(name, request, IF issued THEN <<url>> ELSE <<>>,
           IF issued THEN <<fetch>> ELSE <<>>, outcome)

(* app1.py *)

get_fresh_page ==
    /\ pc = "idle"
    /\ \E in \in PaginatedInputs(VideoDocs) :
        HandleOneGet("get_fresh_page", PageRequest(in[1]), in[1] > 0,
                     ScrapeUrl1(Fresh, in[1]), in[2],
                     PathGt0(in[1], scrape_generic_video_list_page(Fresh, in[1], in[2])))

get_best_rated_page ==
    /\ pc = "idle"
    /\ \E in \in PaginatedInputs(VideoDocs) :
        HandleOneGet("get_best_rated_page", PageRequest(in[1]), in[1] > 0,
                     ScrapeUrl1(Best, in[1]), in[2],
                     PathGt0(in[1], scrape_generic_video_list_page(Best, in[1], in[2])))

get_trend_page ==
    /\ pc = "idle"
    /\ \E in \in PaginatedInputs(VideoDocs) :
        HandleOneGet("get_trend_page", PageRequest(in[1]), in[1] > 0,
                     ScrapeUrl1(Trend, in[1]), in[2],
                     PathGt0(in[1], scrape_generic_video_list_page(Trend, in[1], in[2])))

get_search_results_page ==
    /\ pc = "idle"
    /\ \E in \in PaginatedInputs(SearchDocs), q \in SearchContents :
        HandleOneGet("get_search_results_page", SearchRequest(q, in[1]),
                     in[1] > 0 /\ Truthy(q),
                     SearchUrl1(q, in[1]), in[2],
                     PathGt0(in[1],
                             IF ~Truthy(q) THEN SearchContentError
                             ELSE scrape_search_page(q, in[1], in[2])))

get_categories_page ==
    /\ pc = "idle"
    /\ \E in \in PaginatedInputs(CategoryDocs) :
        HandleOneGet("get_categories_page", PageRequest(in[1]), in[1] > 0,
                     CategoryUrl1(in[1]), in[2],
                     PathGt0(in[1], scrape_category_list_page(in[1], in[2])))

get_pornstars_page ==
    /\ pc = "idle"
    /\ \E in \in PaginatedInputs(PornstarDocs) :
        HandleOneGet("get_pornstars_page", PageRequest(in[1]), in[1] > 0,
                     ScrapeUrlFlask(Pornstars, in[1]), in[2],
                     PathGt0(in[1], scrape_pornstar_list_page(in[1], in[2])))

get_channels_page ==
    /\ pc = "idle"
    /\ \E in \in PaginatedInputs(ChannelDocs) :
        HandleOneGet("get_channels_page", PageRequest(in[1]), in[1] > 0,
                     ScrapeUrlFlask(Channels, in[1]), in[2],
                     PathGt0(in[1], scrape_channel_list_page(in[1], in[2])))

get_stream_links ==
    /\ pc = "idle"
    /\ \E in \in StreamInputs :
        HandleOneGet("get_stream_links", UrlRequest(in[1]), UrlIsValid1(in[1]),
                     in[1], in[2], scrape_video_stream_data(in[1], in[2]))

\* POST /scrape-videos makes two GETs: the one of line 625 and, when that one
\* did not fail, the one of line 633
scrape_videos_endpoint ==
    /\ pc = "idle"
    /\ \E in \in GenericInputs \ {x \in GenericInputs : x[1] = None},
       fetch1 \in {FetchFailed, Fetched(ListingDoc("none", <<>>, "none"))} :
        Handle("scrape_videos_endpoint", UrlRequest(in[1]),
               IF fetch1.ok THEN <<ScrapeUrl1(GuessedSection(in[1]), 1), in[1]>>
               ELSE <<ScrapeUrl1(GuessedSection(in[1]), 1)>>,
               IF fetch1.ok THEN <<fetch1, in[2]>> ELSE <<fetch1>>,
               ScrapeVideosOutcome(in[1], fetch1, in[2]))

(* app.py *)

FreshVideos_get ==
    /\ pc = "idle"
    /\ \E in \in PaginatedInputs(VideoDocs) :
        HandleOneGet("FreshVideos.get", PageRequest(in[1]), in[1] > 0,
                     ScrapeUrlFlask(Fresh, in[1]), in[2],
                     IntConverter(in[1], FreshVideosOutcome(in[1], in[2])))

BestVideos_get ==
    /\ pc = "idle"
    /\ \E in \in PaginatedInputs(VideoDocs) :
        HandleOneGet("BestVideos.get", PageRequest(in[1]), in[1] > 0,
                     ScrapeUrlFlask(Best, in[1]), in[2],
                     IntConverter(in[1], BestVideosOutcome(in[1], in[2])))

TrendVideos_get ==
    /\ pc = "idle"
    /\ \E in \in PaginatedInputs(VideoDocs) :
        HandleOneGet("TrendVideos.get", PageRequest(in[1]), in[1] > 0,
                     ScrapeUrlFlask(Trend, in[1]), in[2],
                     IntConverter(in[1], TrendVideosOutcome(in[1], in[2])))

SearchResults_get ==
    /\ pc = "idle"
    /\ \E in \in PaginatedInputs(SearchDocs), q \in SearchContents :
        HandleOneGet("SearchResults.get", SearchRequest(q, in[1]),
                     in[1] > 0 /\ Truthy(q),
                     SearchUrl1(q, in[1]), in[2],
                     IntConverter(in[1], SearchResultsOutcome(q, in[1], in[2])))

Pornstars_get ==
    /\ pc = "idle"
    /\ \E in \in PaginatedInputs(PornstarDocs) :
        HandleOneGet("Pornstars.get", PageRequest(in[1]), in[1] > 0,
                     ScrapeUrlFlask(Pornstars, in[1]), in[2],
                     IntConverter(in[1], PornstarsOutcome(in[1], in[2])))

Channels_get ==
    /\ pc = "idle"
    /\ \E in \in PaginatedInputs(ChannelDocs) :
        HandleOneGet("Channels.get", PageRequest(in[1]), in[1] > 0,
                     ScrapeUrlFlask(Channels, in[1]), in[2],
                     IntConverter(in[1], ChannelsOutcome(in[1], in[2])))

Categories_get ==
    /\ pc = "idle"
    /\ \E in \in PaginatedInputs(CategoryDocs) :
        HandleOneGet("Categories.get", PageRequest(in[1]), in[1] > 0,
                     ScrapeUrlFlask(Categories, in[1]), in[2],
                     IntConverter(in[1], CategoriesOutcome(in[1], in[2])))

\* the route converter <path:video_page_link> matches no empty link
StreamLinks_get ==
    /\ pc = "idle"
    /\ \E in \in {x \in StreamInputs : x[1] # Empty} :
        HandleOneGet("StreamLinks.get", UrlRequest(in[1]), NormalizedLink(in[1]) # None,
                     NormalizedLink(in[1]), in[2], StreamLinksOutcome(in[1], in[2]))

GenericVideoScraper_post ==
    /\ pc = "idle"
    /\ \E in \in GenericInputs :
        HandleOneGet("GenericVideoScraper.post", UrlRequest(in[1]),
                     TargetUrlIsValid(in[1]), in[1], in[2],
                     GenericVideoScraperOutcome(in[1], in[2]))

\* the response is sent and the worker takes the next request
Respond ==
    /\ pc = "done"
    /\ pc' = "idle"
    /\ op' = "none"
    /\ req' = NoRequest
    /\ gets' = <<>>
    /\ fetched' = <<>>
    /\ out' = HttpError(0, NoMsg)
    /\ UNCHANGED conc_vars

NextStream == get_stream_links \/ StreamLinks_get \/ Respond

NextVideo ==
    \/ get_fresh_page \/ get_best_rated_page \/ get_trend_page
    \/ get_search_results_page \/ scrape_videos_endpoint
    \/ FreshVideos_get \/ BestVideos_get \/ TrendVideos_get \/ SearchResults_get
    \/ GenericVideoScraper_post
    \/ Respond

NextEntity ==
    \/ get_categories_page \/ get_pornstars_page \/ get_channels_page
    \/ Pornstars_get \/ Channels_get \/ Categories_get
    \/ Respond

Next ==
    \/ get_fresh_page \/ get_best_rated_page \/ get_trend_page
    \/ get_search_results_page \/ get_categories_page \/ get_pornstars_page
    \/ get_channels_page \/ get_stream_links \/ scrape_videos_endpoint
    \/ FreshVideos_get \/ BestVideos_get \/ TrendVideos_get \/ SearchResults_get
    \/ Pornstars_get \/ Channels_get \/ Categories_get \/ StreamLinks_get
    \/ GenericVideoScraper_post
    \/ Respond

\* every operation of both variants
Spec == Init /\ [][Next]_vars

\* the stream operations
SpecStream == Init /\ [][NextStream]_vars

\* the video listing operations
SpecVideo == Init /\ [][NextVideo]_vars

\* the category, pornstar and channel listing operations
SpecEntity == Init /\ [][NextEntity]_vars

-----------------------------------------------------------------------------
(* Stream requests handled at the same time.  A worker runs its handler one  *)
(* statement group at a time, and the other worker may take any number of    *)
(* steps in between.  The locals of a call are in the worker's frame; the    *)
(* source list the call builds is an object of the heap, named by            *)
(* frame[w].tags.                                                            *)

\* the pages of these requests
ConcurrentDocs ==
    { [idVideo |-> [src |-> U1, type |-> None, poster |-> None, preview |-> None,
                    sources |-> << [src |-> U1, type |-> Mp4, size |-> <<"7">>, dsize |-> None],
                                   [src |-> U2, type |-> Mp4, size |-> <<"4">>, dsize |-> <<"3">>] >>],
       player |-> FALSE, playerVideo |-> NoElement, script |-> FALSE],
      [idVideo |-> NoElement, player |-> TRUE,
       playerVideo |-> [src |-> None, type |-> None, poster |-> None, preview |-> None,
                        sources |-> << [src |-> BlobUrl, type |-> Mp4, size |-> None, dsize |-> None],
                                       [src |-> U1, type |-> None, size |-> None, dsize |-> None] >>],
       script |-> FALSE],
      [idVideo |-> NoElement, player |-> FALSE, playerVideo |-> NoElement, script |-> FALSE] }

ConcurrentFetches == {FetchFailed} \cup {Fetched(d) : d \in ConcurrentDocs}

ConcurrentLinks == {GoodLink, BadLink}

\* the list object a call's descriptor gets for its sources: pydantic copies
\* the default [] of a Field for every instance, and app.py's template builds
\* a new list on every call, so the list belongs to the call
NewList_Shared(w) == 1

NewList(w) == w

\* the worker's frame after a step
SetFrame(w, f) == frame' = [frame EXCEPT ![w] = f]

\* the handler of worker w ends with this outcome
Return(w, outcome) == SetFrame(w, [frame[w] EXCEPT !.pc = "done", !.out = outcome])

(* app1.py: get_stream_links / scrape_video_stream_data *)

\* the request arrives; lines 536-537
Accept1(w) ==
    /\ frame[w].pc = "idle"
    /\ \E url \in ConcurrentLinks :
          LET f == [IdleFrame EXCEPT !.op = "get_stream_links", !.url = url] IN
          IF UrlIsValid1(url)
          THEN SetFrame(w, [f EXCEPT !.pc = "fetch"])
          ELSE SetFrame(w, [f EXCEPT !.pc = "done",
                                     !.out = HttpError(400, "Invalid video page URL provided")])
    /\ UNCHANGED <<seq_vars, heap, module, earlier>>

\* safe_scrape_page: the GET with the module's HEADERS; line 539
SafeScrape1(w) ==
    /\ frame[w].pc = "fetch" /\ frame[w].op = "get_stream_links"
    /\ \E fetch \in ConcurrentFetches :
          LET f == [frame[w] EXCEPT !.headers = module.HEADERS, !.fetch = fetch] IN
          IF fetch.ok
          THEN SetFrame(w, [f EXCEPT !.pc = "find"])
          ELSE SetFrame(w, [f EXCEPT !.pc = "done",
                                     !.out = HttpError(500, "Failed to fetch or parse URL")])
    /\ UNCHANGED <<seq_vars, heap, module, earlier>>

\* the new StreamData and the search for the <video> element; lines 541-555
FindTag1(w) ==
    /\ frame[w].pc = "find" /\ frame[w].op = "get_stream_links"
    /\ LET video_tag == FindVideoTag(frame[w].fetch.doc)
           f == [frame[w] EXCEPT !.stream_data = StreamData(frame[w].url),
                                 !.tags = NewList(w),
                                 !.video_tag = video_tag]
       IN  /\ heap' = [heap EXCEPT ![NewList(w)] = <<>>]
           /\ IF video_tag = NoElement
              THEN SetFrame(w, [f EXCEPT !.pc = "done",
                                         !.out = HttpError(404, "Video player tag not found on the page.")])
              ELSE SetFrame(w, [f EXCEPT !.pc = "src"])
    /\ UNCHANGED <<seq_vars, module, earlier>>

\* the src of the <video> element and the set of seen sources; lines 559-566
MainSrc1(w) ==
    /\ frame[w].pc = "src" /\ frame[w].op = "get_stream_links"
    /\ LET main_video_src == frame[w].video_tag.src IN
       SetFrame(w, [frame[w] EXCEPT
                      !.stream_data.main_video_src = main_video_src,
                      !.found = IF Truthy(main_video_src) THEN {main_video_src} ELSE {},
                      !.todo = frame[w].video_tag.sources,
                      !.pc = "sources"])
    /\ UNCHANGED <<seq_vars, heap, module, earlier>>

\* one turn of the loop over the <source> children; lines 568-578
SourceTag1(w) ==
    /\ frame[w].pc = "sources" /\ frame[w].op = "get_stream_links"
    /\ frame[w].todo # <<>>
    /\ LET source_tag == Head(frame[w].todo)
           new == IsNewSource1(source_tag.src, frame[w].found)
       IN  /\ heap' = IF new
                      THEN [heap EXCEPT ![frame[w].tags] =
                               Append(@, [src |-> source_tag.src,
                                          type |-> source_tag.type,
                                          size |-> source_tag.size])]
                      ELSE heap
           /\ SetFrame(w, [frame[w] EXCEPT
                             !.found = IF new THEN @ \cup {source_tag.src} ELSE @,
                             !.todo = Tail(@)])
    /\ UNCHANGED <<seq_vars, module, earlier>>

\* the note, the poster, the sprites and the return; lines 580-595
Finish1(w) ==
    /\ frame[w].pc = "sources" /\ frame[w].op = "get_stream_links"
    /\ frame[w].todo = <<>>
    /\ LET video_tag == frame[w].video_tag
           source_tags == heap[frame[w].tags]
       IN  Return(w, OkStream(
               [frame[w].stream_data EXCEPT
                   !.source_tags = source_tags,
                   !.note = IF ~Truthy(frame[w].stream_data.main_video_src)
                               /\ source_tags = <<>>
                            THEN NoteNoSources1 ELSE NoMsg,
                   !.poster_image = video_tag.poster,
                   !.sprite_previews = IF video_tag.preview # None
                                       THEN SpritePreviews(video_tag.preview)
                                       ELSE <<>>]))
    /\ UNCHANGED <<seq_vars, heap, module, earlier>>

(* app.py: StreamLinks.get / scrape_video_page_for_streams *)

\* what StreamLinks.get answers with the dict the scraper returned; lines 838-851
StreamLinksResponse(data) ==
    IF data.error = PlayerNotFoundMsg
    THEN Outcome(404, data.error, <<>>, data)
    ELSE IF MsgTruthy(data.error) /\ data.error = FetchErrorMsg
    THEN Outcome(500, data.error, <<>>, data)
    ELSE IF ~Truthy(data.main_video_src) /\ data.source_tags = <<>>
            /\ ~MsgTruthy(data.error)
    THEN OkStream([data EXCEPT !.error = DictGet(data, "error", NoUsableSourcesMsg)])
    ELSE OkStream(data)

\* the request arrives and its link is completed or rejected; lines 827-833
AcceptFlask(w) ==
    /\ frame[w].pc = "idle"
    /\ \E link \in ConcurrentLinks :
          LET f == [IdleFrame EXCEPT !.op = "StreamLinks.get", !.url = link] IN
          IF NormalizedLink(link) # None
          THEN SetFrame(w, [f EXCEPT !.pc = "fetch"])
          ELSE SetFrame(w, [f EXCEPT !.pc = "done",
                                     !.out = HttpError(400, "Invalid video_page_link. It must be a full URL.")])
    /\ UNCHANGED <<seq_vars, heap, module, earlier>>

\* the GET with the function's own headers; lines 663-672
GetFlask(w) ==
    /\ frame[w].pc = "fetch" /\ frame[w].op = "StreamLinks.get"
    /\ \E fetch \in ConcurrentFetches :
          LET f == [frame[w] EXCEPT !.headers = [UserAgent |-> UserAgent],
                                    !.fetch = fetch]
          IN
          IF fetch.ok
          THEN SetFrame(w, [f EXCEPT !.pc = "find"])
          ELSE SetFrame(w, [f EXCEPT
                   !.pc = "done",
                   !.out = StreamLinksResponse(
                               stream_data_template(NormalizedLink(frame[w].url),
                                                    FetchErrorMsg, NoMsg))])
    /\ UNCHANGED <<seq_vars, heap, module, earlier>>

\* a dict from the template and the search for the <video> element; lines 673-681
FindTagFlask(w) ==
    /\ frame[w].pc = "find" /\ frame[w].op = "StreamLinks.get"
    /\ LET video_tag == FindVideoTag(frame[w].fetch.doc)
           stream_data == stream_data_template(NormalizedLink(frame[w].url), NoMsg, NoMsg)
           f == [frame[w] EXCEPT !.stream_data = stream_data, !.video_tag = video_tag]
       IN  IF video_tag = NoElement
           THEN SetFrame(w, [f EXCEPT
                    !.pc = "done",
                    !.out = StreamLinksResponse(
                                [stream_data EXCEPT !.error = PlayerNotFoundMsg])])
           ELSE SetFrame(w, [f EXCEPT !.pc = "src"])
    /\ UNCHANGED <<seq_vars, heap, module, earlier>>

\* main_video_src, the set of processed URLs and the new list temp_sources,
\* which starts with the main source unless a <source> child has it; lines 682-702
MainSrcFlask(w) ==
    /\ frame[w].pc = "src" /\ frame[w].op = "StreamLinks.get"
    /\ LET video_tag == frame[w].video_tag
           main_video_src == MainVideoSrc(video_tag)
       IN  /\ heap' = [heap EXCEPT ![NewList(w)] =
                         IF Truthy(main_video_src)
                            /\ ~MainSrcIsAlsoInSourceTags(video_tag.sources, main_video_src)
                         THEN << [src |-> main_video_src,
                                  type |-> IF video_tag.type # None
                                           THEN video_tag.type ELSE DefaultMime,
                                  size |-> None] >>
                         ELSE <<>>]
           /\ SetFrame(w, [frame[w] EXCEPT
                             !.stream_data.main_video_src = main_video_src,
                             !.tags = NewList(w),
                             !.found = IF Truthy(main_video_src)
                                       THEN {main_video_src} ELSE {},
                             !.todo = video_tag.sources,
                             !.pc = "sources"])
    /\ UNCHANGED <<seq_vars, module, earlier>>

\* one turn of the second loop over source_elements; lines 704-712
SourceElFlask(w) ==
    /\ frame[w].pc = "sources" /\ frame[w].op = "StreamLinks.get"
    /\ frame[w].todo # <<>>
    /\ LET source_el == Head(frame[w].todo)
           new == IsNewSource(source_el.src, frame[w].found)
       IN  /\ heap' = IF new
                      THEN [heap EXCEPT ![frame[w].tags] =
                               Append(@, [src |-> source_el.src,
                                          type |-> source_el.type,
                                          size |-> IF source_el.dsize # None
                                                   THEN source_el.dsize
                                                   ELSE source_el.size])]
                      ELSE heap
           /\ SetFrame(w, [frame[w] EXCEPT
                             !.found = IF new THEN @ \cup {source_el.src} ELSE @,
                             !.todo = Tail(@)])
    /\ UNCHANGED <<seq_vars, module, earlier>>

\* source_tags, the poster, the sprites, the note, and the handler's answer;
\* lines 713-727 and 838-851
FinishFlask(w) ==
    /\ frame[w].pc = "sources" /\ frame[w].op = "StreamLinks.get"
    /\ frame[w].todo = <<>>
    /\ LET video_tag == frame[w].video_tag
           r == NoteStep([frame[w].stream_data EXCEPT
                            !.source_tags = heap[frame[w].tags],
                            !.poster_image = video_tag.poster,
                            !.sprite_previews = IF video_tag.preview # None
                                                THEN SpritePreviews(video_tag.preview)
                                                ELSE <<>>],
                         frame[w].fetch.doc)
       IN  Return(w, IF r.raised THEN HttpError(500, "Internal Server Error")
                     ELSE StreamLinksResponse(r.data))
    /\ UNCHANGED <<seq_vars, heap, module, earlier>>

\* the response is sent and the worker's frame is dropped; a remembered call
\* now has a later call behind it
Reply(w) ==
    /\ frame[w].pc = "done"
    /\ SetFrame(w, IdleFrame)
    /\ earlier' = IF earlier = NoCall THEN NoCall ELSE [earlier EXCEPT !.between = TRUE]
    /\ UNCHANGED <<seq_vars, heap, module>>

NextConcurrent ==
    \E w \in Workers :
        \/ Accept1(w) \/ SafeScrape1(w) \/ FindTag1(w) \/ MainSrc1(w)
        \/ SourceTag1(w) \/ Finish1(w)
        \/ AcceptFlask(w) \/ GetFlask(w) \/ FindTagFlask(w) \/ MainSrcFlask(w)
        \/ SourceElFlask(w) \/ FinishFlask(w)
        \/ Reply(w)

\* two workers that handle stream requests at the same time
SpecConcurrent == Init /\ [][NextConcurrent]_vars

-----------------------------------------------------------------------------
(* Listing requests of one worker, one after the other.  The worker runs the *)
(* fresh-videos handler of either variant one statement group at a time; the *)
(* list it builds is an object of the heap, where what earlier calls built   *)
(* is still lying about.                                                     *)

ItemA == Item(GenericItemClass, BaseAnchor, BaseTitle, BaseDuration, BasePictures, BaseDetail)
ItemB ==
    Item(GenericItemClass, GalleryAnchor(HrefAbs, None, HrefAbs), BaseTitle,
         BaseDuration, BasePictures, BaseDetail)
ItemAd == Item(PlainAdClass, BaseAnchor, BaseTitle, BaseDuration, BasePictures, BaseDetail)

RepeatDocs ==
    { ListingDoc("js-gallery-list", <<ItemA, ItemB>>, "none"),
      ListingDoc("js-gallery-list", <<ItemB, ItemAd>>, "none"),
      ListingDoc("none", <<>>, "none") }

RepeatFetches == {FetchFailed} \cup {Fetched(d) : d \in RepeatDocs}

RepeatPages == {1, 2}

\* the list a call starts with instead of a new one: what is at that place
NewScrapedData_Leftover(old) == old

\* "videos = []" / "scraped_data = []": the call starts with a new, empty list
NewScrapedData(old) == <<>>

(* app1.py: get_fresh_page / scrape_generic_video_list_page("fresh", n) *)

\* the request arrives with a positive page number; lines 146-154
AcceptFresh1(w) ==
    /\ frame[w].pc = "idle"
    /\ \E page_number \in RepeatPages :
          SetFrame(w, [IdleFrame EXCEPT !.op = "get_fresh_page",
                                        !.page = page_number,
                                        !.url = ScrapeUrl1(Fresh, page_number),
                                        !.pc = "fetch"])
    /\ UNCHANGED <<seq_vars, heap, module, earlier>>

\* safe_scrape_page(scrape_url); line 156
SafeScrapeFresh1(w) ==
    /\ frame[w].pc = "fetch" /\ frame[w].op = "get_fresh_page"
    /\ \E fetch \in RepeatFetches :
          LET f == [frame[w] EXCEPT !.headers = module.HEADERS, !.fetch = fetch] IN
          IF fetch.ok
          THEN SetFrame(w, [f EXCEPT !.pc = "container"])
          ELSE SetFrame(w, [f EXCEPT !.pc = "done", !.out = FetchError1])
    /\ UNCHANGED <<seq_vars, heap, module, earlier>>

\* the container, its items and the new list; lines 159-172
Container1(w) ==
    /\ frame[w].pc = "container" /\ frame[w].op = "get_fresh_page"
    /\ LET doc == frame[w].fetch.doc
           items == ItemsOfClass(doc, <<"b-thumb-item">>)
       IN  IF ~ContainerFound(doc, "js-gallery-list")
           THEN Return(w, MissingContainer1(doc)) /\ UNCHANGED heap
           ELSE IF items = <<>>
           THEN Return(w, OkList(<<>>)) /\ UNCHANGED heap
           ELSE /\ heap' = [heap EXCEPT ![NewList(w)] = NewScrapedData(@)]
                /\ SetFrame(w, [frame[w] EXCEPT !.tags = NewList(w),
                                                !.todo = items,
                                                !.pc = "items"])
    /\ UNCHANGED <<seq_vars, module, earlier>>

\* one turn of the loop over the items; lines 173-235
Item1(w) ==
    /\ frame[w].pc = "items" /\ frame[w].op = "get_fresh_page"
    /\ frame[w].todo # <<>>
    /\ LET item == Head(frame[w].todo) IN
       /\ heap' = IF ~SkipsItem1(item) /\ ParseVideoItem1(item).emit
                  THEN [heap EXCEPT ![frame[w].tags] =
                           Append(@, ParseVideoItem1(item).video)]
                  ELSE heap
       /\ SetFrame(w, [frame[w] EXCEPT !.todo = Tail(@)])
    /\ UNCHANGED <<seq_vars, module, earlier>>

\* "return videos"; line 238
ReturnVideos1(w) ==
    /\ frame[w].pc = "items" /\ frame[w].op = "get_fresh_page"
    /\ frame[w].todo = <<>>
    /\ Return(w, OkList(heap[frame[w].tags]))
    /\ UNCHANGED <<seq_vars, heap, module, earlier>>

(* app.py: FreshVideos.get / scrape_hqporn_fresh_page *)

\* the request arrives with a positive page number; lines 738 and 281-283
AcceptFreshFlask(w) ==
    /\ frame[w].pc = "idle"
    /\ \E page_number \in RepeatPages :
          SetFrame(w, [IdleFrame EXCEPT !.op = "FreshVideos.get",
                                        !.page = page_number,
                                        !.url = ScrapeUrlFlask(Fresh, page_number),
                                        !.pc = "fetch"])
    /\ UNCHANGED <<seq_vars, heap, module, earlier>>

\* the GET with the function's own headers; a failure gives None, which the
\* handler answers with 500; lines 286-292 and 740
GetFreshFlask(w) ==
    /\ frame[w].pc = "fetch" /\ frame[w].op = "FreshVideos.get"
    /\ \E fetch \in RepeatFetches :
          LET f == [frame[w] EXCEPT !.headers = [UserAgent |-> UserAgent],
                                    !.fetch = fetch]
          IN
          IF fetch.ok
          THEN SetFrame(w, [f EXCEPT !.pc = "container"])
          ELSE SetFrame(w, [f EXCEPT
                   !.pc = "done",
                   !.out = PaginatedGet(frame[w].page, ScrapeFailed,
                                        "Failed to scrape fresh videos page.")])
    /\ UNCHANGED <<seq_vars, heap, module, earlier>>

\* the container, its items and the new list; lines 293-302
ContainerFlask(w) ==
    /\ frame[w].pc = "container" /\ frame[w].op = "FreshVideos.get"
    /\ LET doc == frame[w].fetch.doc
           items == ItemsOfClass(doc, <<"b-thumb-item">>)
       IN  IF ~ContainerFound(doc, "js-gallery-list") \/ items = <<>>
           THEN /\ Return(w, PaginatedGet(frame[w].page, Scraped(<<>>),
                                          "Failed to scrape fresh videos page."))
                /\ UNCHANGED heap
           ELSE /\ heap' = [heap EXCEPT ![NewList(w)] = NewScrapedData(@)]
                /\ SetFrame(w, [frame[w] EXCEPT !.tags = NewList(w),
                                                !.todo = items,
                                                !.pc = "items"])
    /\ UNCHANGED <<seq_vars, module, earlier>>

\* one turn of the loop over the items; lines 303-339
ItemFlask(w) ==
    /\ frame[w].pc = "items" /\ frame[w].op = "FreshVideos.get"
    /\ frame[w].todo # <<>>
    /\ LET item_soup == Head(frame[w].todo) IN
       /\ heap' = IF AnchorByClass(item_soup, <<"js-gallery-link">>) # NoElement
                  THEN [heap EXCEPT ![frame[w].tags] =
                           Append(@, ParseVideoItemFlask(item_soup))]
                  ELSE heap
       /\ SetFrame(w, [frame[w] EXCEPT !.todo = Tail(@)])
    /\ UNCHANGED <<seq_vars, module, earlier>>

\* "return scraped_data" and the handler's answer; lines 340 and 740-741
ReturnFlask(w) ==
    /\ frame[w].pc = "items" /\ frame[w].op = "FreshVideos.get"
    /\ frame[w].todo = <<>>
    /\ Return(w, PaginatedGet(frame[w].page, Scraped(heap[frame[w].tags]),
                              "Failed to scrape fresh videos page."))
    /\ UNCHANGED <<seq_vars, heap, module, earlier>>

\* the response is sent, and the call is remembered with what it was given
\* and what it answered
ReplyRemembered(w) ==
    /\ frame[w].pc = "done"
    /\ earlier = NoCall
    /\ earlier' = [op |-> frame[w].op, fetch |-> frame[w].fetch,
                   out |-> frame[w].out, between |-> FALSE]
    /\ SetFrame(w, IdleFrame)
    /\ UNCHANGED <<seq_vars, heap, module>>

NextRepeat ==
    \/ AcceptFresh1(1) \/ SafeScrapeFresh1(1) \/ Container1(1) \/ Item1(1)
    \/ ReturnVideos1(1)
    \/ AcceptFreshFlask(1) \/ GetFreshFlask(1) \/ ContainerFlask(1) \/ ItemFlask(1)
    \/ ReturnFlask(1)
    \/ Reply(1) \/ ReplyRemembered(1)

\* one worker that handles fresh-videos requests one after the other
SpecRepeat == Init /\ [][NextRepeat]_vars

-----------------------------------------------------------------------------
(* Properties                                                                *)

StreamOps == {"get_stream_links", "StreamLinks.get"}

\* the handler has run to its end
Done(ops) == pc = "done" /\ op \in ops

\* the handler's last GET returned a page
GotPage == fetched # <<>> /\ fetched[Len(fetched)].ok

\* that page
Page == fetched[Len(fetched)].doc

\* the stream handler got a page with a <video> element and produced a descriptor
Extracted ==
    Done(StreamOps) /\ GotPage /\ FindVideoTag(Page) # NoElement /\ out.stream # NoStream

\* the descriptor's error field; app1.py's StreamData has none
ErrorOf(stream) == IF "error" \in DOMAIN stream THEN stream.error ELSE NoMsg

\* C1: whenever a returned stream descriptor has its primary source
\* (main_video_src) set, source_tags contains an element whose src equals it.
C1_PrimaryInSources ==
    (Done(StreamOps) /\ out.stream # NoStream /\ Truthy(out.stream.main_video_src))
    => \E i \in 1..Len(out.stream.source_tags) :
           out.stream.source_tags[i].src = out.stream.main_video_src

\* C2: no two elements of a returned descriptor's source_tags have the same
\* src, whatever the <video> src and its <source> children are.
C2_SourcesUnique ==
    (Done(StreamOps) /\ out.stream # NoStream)
    => \A i, j \in 1..Len(out.stream.source_tags) :
           i # j => out.stream.source_tags[i].src # out.stream.source_tags[j].src

\* a <video> with a src and two <source> children of one URL, another than
\* its src, was extracted and the descriptor lists that URL
C2_Witness ==
    /\ Extracted
    /\ LET video_tag == FindVideoTag(Page) IN
       /\ Truthy(video_tag.src)
       /\ \E i, j \in 1..Len(video_tag.sources) :
              /\ i # j
              /\ video_tag.sources[i].src = video_tag.sources[j].src
              /\ \E k \in 1..Len(out.stream.source_tags) :
                     out.stream.source_tags[k].src = video_tag.sources[i].src

\* the fetched page has neither <video id="video_html5_api"> nor a <video>
\* inside div.b-video-player
NoVideoElement ==
    Done(StreamOps) /\ GotPage
    /\ Page.idVideo = NoElement /\ (~Page.player \/ Page.playerVideo = NoElement)

\* C4 (amended): on a fetched page without a video element, app1.py's
\* scrape_video_stream_data raises HTTPException 404 and returns no
\* descriptor; app.py's scrape_video_page_for_streams does not raise and
\* returns a descriptor whose error is "Video player tag not found.", with
\* main_video_src and poster_image absent and source_tags and sprite_previews
\* empty (StreamLinks.get answers 404 with it).
C4_NoPlayer ==
    NoVideoElement =>
        /\ out.status = 404
        /\ op = "get_stream_links" =>
              /\ out.stream = NoStream
              /\ out.detail = "Video player tag not found on the page."
        /\ op = "StreamLinks.get" =>
              /\ out.stream # NoStream
              /\ out.stream.error = PlayerNotFoundMsg
              /\ out.stream.main_video_src = None
              /\ out.stream.source_tags = <<>>
              /\ out.stream.poster_image = None
              /\ out.stream.sprite_previews = <<>>

\* app.py answered for a page that has a player container but no <video>
C4_Witness ==
    /\ NoVideoElement /\ op = "StreamLinks.get" /\ Page.player
    /\ out.stream # NoStream /\ out.stream.error = PlayerNotFoundMsg

\* C4 as stated: on such a page the extractor does not raise and returns a
\* descriptor with the 'player element not found' diagnostic and empty fields.
C4_Original ==
    NoVideoElement =>
        /\ out.stream # NoStream
        /\ MsgTruthy(ErrorOf(out.stream)) \/ MsgTruthy(out.stream.note)
        /\ out.stream.main_video_src = None
        /\ out.stream.source_tags = <<>>
        /\ out.stream.poster_image = None
        /\ out.stream.sprite_previews = <<>>

\* C5: when a <video> is found that has no src attribute and no <source>
\* child with a src, the descriptor has source_tags empty, main_video_src
\* absent and a non-empty note (here: in either diagnostic field).
C5_NoSourceNote ==
    (/\ Extracted
     /\ FindVideoTag(Page).src = None
     /\ \A i \in 1..Len(FindVideoTag(Page).sources) : FindVideoTag(Page).sources[i].src = None)
    => /\ out.stream.source_tags = <<>>
       /\ out.stream.main_video_src = None
       /\ MsgTruthy(out.stream.note) \/ MsgTruthy(ErrorOf(out.stream))

VideoListOps1 ==
    {"get_fresh_page", "get_best_rated_page", "get_trend_page", "get_search_results_page"}
VideoListOpsFlask ==
    {"FreshVideos.get", "BestVideos.get", "TrendVideos.get", "SearchResults.get"}
GenericOps == {"scrape_videos_endpoint", "GenericVideoScraper.post"}
VideoOps == VideoListOps1 \cup VideoListOpsFlask \cup GenericOps
EntityOps ==
    {"get_categories_page", "get_pornstars_page", "get_channels_page",
     "Pornstars.get", "Channels.get", "Categories.get"}
PaginatedOps == VideoListOps1 \cup VideoListOpsFlask \cup EntityOps

\* the list class of div#galleries that a paginated operation looks for
ExpectedContainer(name) ==
    IF name \in {"get_categories_page", "Categories.get"} THEN "js-category-list"
    ELSE IF name \in {"get_pornstars_page", "Pornstars.get"} THEN "js-pornstar-list"
    ELSE IF name \in {"get_channels_page", "Channels.get"} THEN "js-channel-list"
    ELSE "js-gallery-list"

\* the items of the page without the random-thumb marker
PlainItems == SelectSeq(Page.items, LAMBDA it : ~HasClass(it, "random-thumb"))

\* C3: an item whose class list contains random-thumb never appears in the
\* output of a video listing operation: the output has no more records than
\* the page has items without the marker.
C3_NoRandomThumb ==
    (Done(VideoOps) /\ GotPage) => Len(out.list) <= Len(PlainItems)

\* C6 (amended): given a fetched page without the expected container, every
\* paginated listing operation (fresh, best, trend, search, categories,
\* pornstars, channels, in both variants) returns an empty sequence with
\* status 200; the scrape-videos endpoints instead answer 404 for a page with
\* no div#galleries and no items.
C6_MissingContainer ==
    /\ (Done(PaginatedOps) /\ GotPage /\ Page.container # ExpectedContainer(op))
       => (out.status = 200 /\ out.list = <<>>)
    /\ (Done(GenericOps) /\ GotPage /\ Page.container = "none" /\ Page.items = <<>>)
       => (out.status = 404 /\ out.list = <<>>)

\* app1.py's fresh listing got a page whose div#galleries has another list
\* class, with an item in it, and answered with the empty list
C6_Witness ==
    /\ Done({"get_fresh_page"}) /\ GotPage
    /\ Page.container \notin {"none", "js-gallery-list"} /\ Page.items # <<>>
    /\ out = OkList(<<>>)

\* C6 as stated: every listing operation, the scrape-videos endpoints
\* included, returns an empty sequence as a successful result for a fetched
\* page without the container.
C6_Original ==
    /\ (Done(PaginatedOps) /\ GotPage /\ Page.container # ExpectedContainer(op))
       => (out.status = 200 /\ out.list = <<>>)
    /\ (Done(GenericOps) /\ GotPage /\ Page.container = "none" /\ Page.items = <<>>)
       => (out.status = 200 /\ out.list = <<>>)

AllOps == PaginatedOps \cup GenericOps \cup StreamOps

\* the handler's last GET failed (network error or non-2xx status)
FetchFailure == fetched # <<>> /\ ~fetched[Len(fetched)].ok

\* C7: for every listing and stream operation a failed GET always gives an
\* error outcome (status 500, nothing in the list), and no fetched page,
\* whatever was or was not found in it, gives that status: the two outcomes
\* are never equal.
C7_FetchFailureIsError ==
    /\ (Done(AllOps) /\ FetchFailure) => (out.status = 500 /\ out.list = <<>>)
    /\ (Done(AllOps) /\ GotPage) => out.status \in {200, 404}

\* app.py's fresh listing answered a failed GET
C7_Witness ==
    Done({"FreshVideos.get"}) /\ FetchFailure /\ out.status = 500

\* the resolution of the claim: absent stays absent, a leading "/" gets the
\* origin in front, anything else is unchanged
Resolved(href) ==
    IF href = None THEN None
    ELSE IF StartsWith(href, <<"/">>) THEN BASE_URL \o href
    ELSE href

\* the hrefs of the anchors of an item: its gallery anchor (None without one
\* or without the attribute) and its tag anchors
ItemHrefs(item) ==
    (IF item.a = NoElement THEN {None} ELSE {item.a.href})
    \cup (IF item.detail = NoElement THEN {}
          ELSE {item.detail.links[i].href : i \in 1..Len(item.detail.links)})

PageHrefs == UNION {ItemHrefs(Page.items[i]) : i \in 1..Len(Page.items)} \cup {None}

\* C8: every link of an emitted video record, and every link of its tags, is
\* the resolution of an href of the page: absent for absent, origin + href for
\* an href starting with "/", the href itself otherwise.
C8_UrlResolution ==
    (Done(VideoOps) /\ GotPage) =>
        \A i \in 1..Len(out.list) :
            /\ out.list[i].link \in {Resolved(h) : h \in PageHrefs}
            /\ \A k \in 1..Len(out.list[i].tags) :
                   out.list[i].tags[k].link \in {Resolved(h) : h \in PageHrefs}

\* C9: no video record is emitted that lacks both a non-empty link and a
\* non-empty title.
C9_LinkOrTitle ==
    Done(VideoOps) =>
        \A i \in 1..Len(out.list) :
            Truthy(out.list[i].link) \/ Truthy(out.list[i].title)

\* C10: every category, channel and pornstar record of the output has a
\* non-empty link and a non-empty name.
C10_EntityLinkAndName ==
    Done(EntityOps) =>
        \A i \in 1..Len(out.list) :
            Truthy(out.list[i].link) /\ Truthy(out.list[i].name)

\* a page held an item with a name but whose stats anchor has no href, next to
\* a good item: only the good one is in the output
C10_Witness ==
    /\ Done(EntityOps) /\ GotPage /\ Page.container = ExpectedContainer(op)
    /\ \E i \in 1..Len(Page.items) :
           /\ Page.items[i].a # NoElement
           /\ Page.items[i].a.href = None
           /\ Truthy(Page.items[i].a.title)
    /\ Len(Page.items) = 2
    /\ Len(out.list) = 1
\* the anchors of an item's detail element that have a non-empty href and a
\* text that is not empty after trimming
TagAnchors(item) ==
    IF item.detail = NoElement THEN <<>>
    ELSE SelectSeq(item.detail.links,
                   LAMBDA a : Truthy(a.href) /\ Strip(JoinPieces(a.text, <<>>)) # <<>>)

\* C11: every Tag of every emitted video record has a non-empty name and a
\* non-empty link, and a record has one Tag for each anchor of its item's
\* detail element that has a non-empty href and a non-empty trimmed text: an
\* anchor without href, with an empty href or with blank text produces no Tag.
C11_TagsNonEmpty ==
    (Done(VideoOps) /\ GotPage) =>
        \A i \in 1..Len(out.list) :
            /\ \A k \in 1..Len(out.list[i].tags) :
                   Truthy(out.list[i].tags[k].name) /\ Truthy(out.list[i].tags[k].link)
            /\ \E j \in 1..Len(Page.items) :
                   Len(out.list[i].tags) = Len(TagAnchors(Page.items[j]))

\* a page held an item whose detail element has an anchor without href or with
\* blank text next to good ones, and the record has fewer Tags than anchors
C11_Witness ==
    /\ Done(VideoOps) /\ GotPage /\ Len(Page.items) = 1 /\ Len(out.list) = 1
    /\ Page.items[1].detail # NoElement
    /\ Len(TagAnchors(Page.items[1])) < Len(Page.items[1].detail.links)
    /\ Len(out.list[1].tags) = Len(TagAnchors(Page.items[1]))
\* the URLs of a <video> element in document order: its own src, then the src
\* of each <source> child
UrlsInOrder(video_tag) ==
    <<video_tag.src>> \o [i \in 1..Len(video_tag.sources) |-> video_tag.sources[i].src]

\* u is seen in urls before every occurrence of v
SeenBefore(urls, u, v) ==
    \E a \in 1..Len(urls) : urls[a] = u /\ \A b \in 1..a : urls[b] # v

\* C12: source_tags keeps first-seen order: of any two entries the earlier one
\* has the URL that is seen first in the document (the <video> element's own
\* src, then its <source> children in order); so an entry contributed by the
\* element's own src is the first, and the children's entries follow in the
\* document order of the children.
C12_FirstSeenOrder ==
    Extracted =>
        LET urls == UrlsInOrder(FindVideoTag(Page))
            tags == out.stream.source_tags
        IN  /\ \A i, j \in 1..Len(tags) :
                   i < j => SeenBefore(urls, tags[i].src, tags[j].src)
            /\ \A i \in 1..Len(tags) :
                   tags[i].src = FindVideoTag(Page).src => i = 1

\* a <video> with its own src and two <source> children of other URLs gave
\* three entries, the element's own src first
C12_Witness ==
    /\ Extracted
    /\ Len(out.stream.source_tags) = 3
    /\ out.stream.source_tags[1].src = FindVideoTag(Page).src
    /\ out.stream.source_tags[2].src = FindVideoTag(Page).sources[1].src
    /\ out.stream.source_tags[3].src = FindVideoTag(Page).sources[2].src
\* the first <source> child of the element that has the URL u
FirstChildOf(video_tag, u) ==
    First(SelectSeq(video_tag.sources, LAMBDA c : c.src = u))

\* C13: every distinct src URL of the <source> children of the <video>
\* element is the src of some entry of source_tags, and that entry has the
\* type attribute and the size (or data-size) attribute of the first child
\* with that URL.
C13_ChildSourcesListed ==
    Extracted =>
        \A c \in 1..Len(FindVideoTag(Page).sources) :
            LET u == FindVideoTag(Page).sources[c].src
                child == FirstChildOf(FindVideoTag(Page), u)
            IN  Truthy(u) =>
                    \E k \in 1..Len(out.stream.source_tags) :
                        /\ out.stream.source_tags[k].src = u
                        /\ out.stream.source_tags[k].type = child.type
                        /\ out.stream.source_tags[k].size \in {child.size, child.dsize}
\* the handler got a page with one item and emitted one record
OneItemOneRecord(ops) ==
    Done(ops) /\ GotPage /\ Len(Page.items) = 1 /\ Len(out.list) = 1

\* the selectors of an operation's title element and primary anchor: the
\* scrape-videos endpoints look for the full class strings
TitleSelector(name) ==
    IF name \in GenericOps THEN GalleryTitleClass ELSE <<"b-thumb-item__title">>

AnchorSelector(name) ==
    IF name \in GenericOps THEN GalleryLinkClass ELSE <<"js-gallery-link">>

\* the text of an item's title element, its text nodes trimmed and joined
\* with or without a space; none without the element or without text
TitleTexts(item) ==
    IF TitleByClass(item, TitleSelector(op)) = NoElement THEN {}
    ELSE {GetTextStrip(item.title, <<>>), GetTextStrip(item.title, <<" ">>)} \ {Empty}

\* the title attribute of the item's primary anchor
AnchorTitle(item) ==
    IF AnchorByClass(item, AnchorSelector(op)) = NoElement THEN None
    ELSE item.a.title

\* C14: the title of a video record is the text of the item's title element
\* when that text is not empty, and the title attribute of the primary anchor
\* when the title element is missing or its text is empty (an attribute that
\* is absent or empty gives a title that is absent or empty).
C14_TitleFallback ==
    OneItemOneRecord(VideoOps) =>
        IF TitleTexts(Page.items[1]) # {}
        THEN out.list[1].title \in TitleTexts(Page.items[1])
        ELSE \/ out.list[1].title = AnchorTitle(Page.items[1])
             \/ ~Truthy(out.list[1].title) /\ ~Truthy(AnchorTitle(Page.items[1]))
\* the title attribute of an entity item's stats anchor, trimmed (empty
\* without the anchor or the attribute)
EntityAttrName(item) ==
    IF item.a = NoElement THEN Empty ELSE StrippedTitle(item.a)

\* the trimmed text of an entity item's title element (empty without it)
EntityTitleText(item) ==
    IF TitleByClass(item, <<"b-thumb-item__title">>) = NoElement THEN Empty
    ELSE GetTextStrip(item.title, <<>>)

\* C15: the name of a Category record is the non-empty one of the anchor's
\* title attribute and the title element's text when only one of them is
\* non-empty, and the longer one when both are (either one at equal length).
C15_CategoryName ==
    OneItemOneRecord({"get_categories_page", "Categories.get"}) =>
        LET attr == EntityAttrName(Page.items[1])
            text == EntityTitleText(Page.items[1])
            name == out.list[1].name
        IN  /\ name \in {attr, text} \ {Empty}
            /\ Len(attr) > Len(text) => name = attr
            /\ Len(text) > Len(attr) => name = text
\* the trimmed text of the <span> in an entity item's title element (empty
\* without the element, without the span or without text)
EntitySpanText(item) ==
    IF TitleByClass(item, <<"b-thumb-item__title">>) = NoElement THEN Empty
    ELSE IF item.title.span = NoElement THEN Empty
    ELSE GetTextStrip(item.title.span, <<>>)

\* C16: the name of a Channel record is the text of the <span> in the title
\* element whenever that text is not empty, whatever the anchor's title
\* attribute is and whichever is longer; without span text it is the anchor's
\* title attribute when that is not empty.
C16_ChannelName ==
    OneItemOneRecord({"get_channels_page", "Channels.get"}) =>
        LET attr == EntityAttrName(Page.items[1])
            span == EntitySpanText(Page.items[1])
            name == out.list[1].name
        IN  /\ span # Empty => name = span
            /\ (span = Empty /\ attr # Empty) => name = attr
\* the lazy source an <img> provides: its data-src, or its src when data-src
\* is absent or empty; absent when neither has a value
LazyOf(img) ==
    IF Truthy(img.dsrc) THEN img.dsrc
    ELSE IF Truthy(img.src) THEN img.src
    ELSE None

\* the <img> elements of the <picture> elements of an item
ItemImgs(item) ==
    {item.pictures[p].img : p \in 1..Len(item.pictures)} \ {NoElement}

\* the lazy sources the items of the page provide
PageLazySources ==
    {None} \cup UNION { {LazyOf(img) : img \in ItemImgs(Page.items[i])} :
                          i \in 1..Len(Page.items) }

ImageOps == VideoOps \cup EntityOps

\* C17: in every emitted record each field of the image set is absent or a
\* non-empty string (a missing element and an empty srcset or data-src give
\* no empty string), and the lazy source is what an <img> of the page
\* provides: its data-src, or its src when data-src has no value.
C17_ImageFields ==
    (Done(ImageOps) /\ GotPage) =>
        \A i \in 1..Len(out.list) :
            LET image_urls == out.list[i].image_urls IN
            /\ image_urls.img_src # Empty
            /\ image_urls.jpeg # Empty
            /\ image_urls.webp # Empty
            /\ image_urls.img_src \in PageLazySources
\* the <picture> the image set of an item is read from: for a video item the
\* one tagged js-gallery-img when there is one, else the first; for a
\* category, channel or pornstar item always the first
ScopedPicture(item, name) ==
    IF name \in VideoOps /\ GalleryPicture(item) # NoElement THEN GalleryPicture(item)
    ELSE FirstPicture(item)

\* two fields agree: the same value, or both without a value
SameField(a, b) == a = b \/ (~Truthy(a) /\ ~Truthy(b))

\* C18: the image set of a video record is read from the item's <picture>
\* tagged as the gallery image when there is one and otherwise from the
\* item's first <picture>; the image set of a category, channel or pornstar
\* record is read from the item's first <picture>, also when a later one is
\* tagged as the gallery image.
C18_PictureScope ==
    OneItemOneRecord(ImageOps) =>
        LET expected == PictureUrls(ScopedPicture(Page.items[1], op))
            image_urls == out.list[1].image_urls
        IN  /\ SameField(image_urls.img_src, expected.img_src)
            /\ SameField(image_urls.jpeg, expected.jpeg)
            /\ SameField(image_urls.webp, expected.webp)
\* the positions of the commas of a string, and the k-th of them (0 before the
\* first, Len + 1 after the last)
CommaPositions(s) == {i \in 1..Len(s) : s[i] = ","}

CommaAt(s, k) ==
    IF k = 0 THEN 0
    ELSE IF k > Cardinality(CommaPositions(s)) THEN Len(s) + 1
    ELSE CHOOSE p \in CommaPositions(s) :
             Cardinality({q \in CommaPositions(s) : q < p}) = k - 1

\* the k-th segment between commas, without its surrounding whitespace
TrimmedSegment(s, k) ==
    LET seg == SubSeq(s, CommaAt(s, k - 1) + 1, CommaAt(s, k) - 1)
        inked == {i \in 1..Len(seg) : seg[i] # " "}
    IN  IF inked = {} THEN <<>>
        ELSE SubSeq(seg, CHOOSE i \in inked : \A j \in inked : i <= j,
                         CHOOSE i \in inked : \A j \in inked : i >= j)

\* the trimmed segments that are not empty, in their order
ExpectedSprites(s) ==
    SelectSeq([k \in 1..(Cardinality(CommaPositions(s)) + 1) |-> TrimmedSegment(s, k)],
              LAMBDA x : x # <<>>)

\* C19: sprite_previews is the data-preview attribute of the <video> element
\* split on commas, each segment trimmed of surrounding whitespace, empty
\* segments dropped, in the original order; it is empty without the attribute.
C19_SpritePreviews ==
    Extracted =>
        out.stream.sprite_previews =
            IF FindVideoTag(Page).preview = None THEN <<>>
            ELSE ExpectedSprites(FindVideoTag(Page).preview)

\* a data-preview with padded, empty and blank segments gave its two names
C19_Witness ==
    /\ Extracted
    /\ FindVideoTag(Page).preview = <<" ", "a", " ", ",", ",", " ", ",", "b", ",">>
    /\ out.stream.sprite_previews = << <<"a">>, <<"b">> >>
\* the data-preview attribute of an item's primary anchor; absent without the
\* anchor or without the attribute
AnchorPreview(item) ==
    IF AnchorByClass(item, AnchorSelector(op)) = NoElement THEN None
    ELSE item.a.preview

\* C20 (amended): the preview_video_url of a video record is the data-preview
\* attribute of the item's primary anchor as it is written, with no origin
\* put in front of a value that starts with "/"; when the attribute (or the
\* anchor) is absent it is absent, except in app.py's
\* scrape_generic_page_videos, whose record has a required string field and
\* holds the empty string.
C20_PreviewVerbatim ==
    OneItemOneRecord(VideoOps) =>
        IF AnchorPreview(Page.items[1]) # None
        THEN out.list[1].preview_video_url = AnchorPreview(Page.items[1])
        ELSE out.list[1].preview_video_url =
                 IF op = "GenericVideoScraper.post" THEN Empty ELSE None

\* a record was emitted for an anchor whose data-preview starts with "/" and
\* holds that value unchanged
C20_Witness ==
    /\ OneItemOneRecord(VideoOps)
    /\ AnchorPreview(Page.items[1]) = HrefRel
    /\ out.list[1].preview_video_url = HrefRel
    /\ out.list[1].link = BASE_URL \o HrefRel

\* C20 as stated: the preview_video_url is the attribute verbatim and is
\* absent when the attribute is absent, in every video listing operation.
C20_Original ==
    OneItemOneRecord(VideoOps) =>
        out.list[1].preview_video_url = AnchorPreview(Page.items[1])
\* C22: every request makes at most one outbound GET.
C22_OneGet ==
    Done(AllOps) => Len(gets) <= 1
ListingOps == PaginatedOps \cup GenericOps

\* the class of the item elements a listing operation matches
ItemSelector(name) ==
    IF name \in GenericOps THEN GenericItemClass
    ELSE IF name \in {"get_pornstars_page", "Pornstars.get"} THEN <<"b-thumb-item--star">>
    ELSE IF name \in EntityOps THEN <<"b-thumb-item--cat">>
    ELSE <<"b-thumb-item">>

\* the record an operation builds from one item (none for an item app.py
\* passes over for its missing anchor)
RecordOf(name, item) ==
    IF name \in VideoListOps1 THEN ParseVideoItem1(item).video
    ELSE IF name = "scrape_videos_endpoint" THEN ParseVideoItemEndpoint1(item).video
    ELSE IF name = "GenericVideoScraper.post" THEN ParseVideoItemGeneric(item)
    ELSE IF name \in VideoListOpsFlask
    THEN IF AnchorByClass(item, <<"js-gallery-link">>) = NoElement THEN NoElement
         ELSE ParseVideoItemFlask(item)
    ELSE IF name = "get_categories_page" THEN ParseCategoryItem1(item).entry
    ELSE IF name = "get_pornstars_page" THEN ParsePornstarItem1(item).entry
    ELSE IF name = "get_channels_page" THEN ParseChannelItem1(item).entry
    ELSE IF name = "Categories.get" THEN ParseCategoryItemFlask(item).entry
    ELSE IF name = "Pornstars.get" THEN ParsePornstarItemFlask(item).entry
    ELSE ParseChannelItemFlask(item).entry

\* a is b with some of its elements left out
RECURSIVE IsSelectionOf(_, _)
IsSelectionOf(a, b) ==
    IF a = <<>> THEN TRUE
    ELSE IF b = <<>> THEN FALSE
    ELSE IF Head(a) = Head(b) THEN IsSelectionOf(Tail(a), Tail(b))
    ELSE IsSelectionOf(a, Tail(b))

\* the records of the matched items of the page, in document order
MatchedRecords ==
    LET items == ItemsOfClass(Page, ItemSelector(op))
    IN  [i \in 1..Len(items) |-> RecordOf(op, items[i])]

\* C24: the output of every listing operation is an order-preserving
\* selection of the page's matched items: each record is the record of one
\* matched item, the records are in the document order of their items, and
\* there are no more records than matched items.
C24_OrderedSelection ==
    (Done(ListingOps) /\ GotPage) =>
        /\ IsSelectionOf(out.list, MatchedRecords)
        /\ Len(out.list) <= Len(ItemsOfClass(Page, ItemSelector(op)))

\* a page with two items whose records differ gave both, in page order
C24_Witness ==
    /\ Done(EntityOps) /\ GotPage
    /\ Len(out.list) = 2
    /\ out.list[1] # out.list[2]
    /\ out.list = MatchedRecords
\* C25: for the same fetched document app.py's fresh listing and app1.py's
\* scrape_generic_video_list_page('fresh', n) give the same records in the
\* same order.
C25_VariantsAgree ==
    (Done({"FreshVideos.get"}) /\ GotPage /\ out.status = 200) =>
        out.list = scrape_generic_video_list_page(Fresh, req.page_number, fetched[1]).list
\* app1.py's search answered 200 for a fetched page
SearchAnswered == Done({"get_search_results_page"}) /\ GotPage /\ out.status = 200

\* what scrape_generic_video_list_page returns for the page of the request
GenericListOfPage ==
    scrape_generic_video_list_page(Fresh, req.page_number, fetched[1]).list

SectionOf(name) ==
    IF name \in {"get_fresh_page", "FreshVideos.get"} THEN Fresh
    ELSE IF name \in {"get_best_rated_page", "BestVideos.get"} THEN Best
    ELSE IF name \in {"get_trend_page", "TrendVideos.get"} THEN Trend
    ELSE IF name \in {"get_pornstars_page", "Pornstars.get"} THEN Pornstars
    ELSE IF name \in {"get_channels_page", "Channels.get"} THEN Channels
    ELSE IF name \in {"get_categories_page", "Categories.get"} THEN Categories
    ELSE Search \o Slash \o Quote(req.search_content)

\* origin/section/ for page 1 and origin/section/n/ for a page n > 1
SectionPageUrl(section, n) ==
    IF n = 1 THEN BASE_URL \o Slash \o section \o Slash
    ELSE BASE_URL \o Slash \o section \o Slash \o Str(n) \o Slash

\* C27: every paginated operation fetches page 1 from origin/section/ and a
\* page n > 1 from origin/section/n/, in both variants.
C27_PageUrls ==
    (Done(PaginatedOps) /\ gets # <<>>) =>
        gets[1] = SectionPageUrl(SectionOf(op), req.page_number)
Ops1 == VideoListOps1 \cup {"get_categories_page", "get_pornstars_page", "get_channels_page"}

\* a paginated request with a page number that is not positive was answered
NonPositivePage == Done(PaginatedOps) /\ req.page_number <= 0

StreamLinksScraped == Done({"StreamLinks.get"}) /\ gets # <<>>

\* the descriptor has a main source or at least one source
HasSource(stream) == Truthy(stream.main_video_src) \/ stream.source_tags # <<>>

\* C29: app.py's stream endpoint answers a fetch failure with 500, a page
\* without a video player tag with 404, and a page whose player has no usable
\* source with 200 and the error "No usable video stream sources found on the
\* page."; a response with a main source or a source carries no error.
C29_StreamResponses ==
    StreamLinksScraped =>
        /\ FetchFailure => out.status = 500
        /\ (GotPage /\ FindVideoTag(Page) = NoElement) => out.status = 404
        /\ (GotPage /\ FindVideoTag(Page) # NoElement /\ ~HasSource(out.stream))
              => (out.status = 200 /\ out.stream.error = NoUsableSourcesMsg)
        /\ (GotPage /\ FindVideoTag(Page) # NoElement /\ HasSource(out.stream))
              => (out.status = 200 /\ ~MsgTruthy(out.stream.error))

\* C30: in a descriptor of app.py's scrape_video_page_for_streams no URL that
\* begins with "blob:" is the main_video_src or the src of a source_tags
\* element, whatever the <video> src and its <source> children are.
C30_NoBlob ==
    (Done({"StreamLinks.get"}) /\ out.stream # NoStream)
    => /\ ~StartsWith(out.stream.main_video_src, BlobPrefix)
       /\ \A i \in 1..Len(out.stream.source_tags) :
              ~StartsWith(out.stream.source_tags[i].src, BlobPrefix)

\* a page whose <video> src is a blob: URL and that has a blob: <source>
\* child next to a usable one, which alone is listed
C30_Witness ==
    /\ Done({"StreamLinks.get"}) /\ GotPage /\ FindVideoTag(Page) # NoElement
    /\ StartsWith(FindVideoTag(Page).src, BlobPrefix)
    /\ \E i \in 1..Len(FindVideoTag(Page).sources) :
           StartsWith(FindVideoTag(Page).sources[i].src, BlobPrefix)
    /\ out.status = 200 /\ Len(out.stream.source_tags) = 1

\* what the request of a frame gives when it is handled alone
AloneOutcome(f) ==
    IF f.op = "get_stream_links" THEN scrape_video_stream_data(f.url, f.fetch)
    ELSE StreamLinksOutcome(f.url, f.fetch)

\* C23: under any interleaving of the workers' steps, the result of every
\* finished request equals the result of that request run alone on the same
\* fetched document, and the module-level BASE_URL and HEADERS are as the
\* import left them.
C23_Isolation ==
    /\ \A w \in Workers :
          frame[w].pc = "done" => frame[w].out = AloneOutcome(frame[w])
    /\ module = ModuleAtImport

\* a request has finished with a source while the other worker, which handles
\* a request of the other variant, was in the middle of its own, different list
C23_Witness ==
    \E w, v \in Workers :
        /\ frame[w].pc = "done" /\ frame[w].out.status = 200
        /\ Len(frame[w].out.stream.source_tags) = 1
        /\ frame[v].pc = "sources" /\ frame[v].op # frame[w].op
        /\ frame[v].todo # <<>> /\ heap[frame[v].tags] # <<>>
        /\ heap[frame[v].tags] # frame[w].out.stream.source_tags

\* a call of the operation of the remembered call, on the same fetch result,
\* has run to its end
CalledAgain(w) ==
    /\ frame[w].pc = "done" /\ earlier # NoCall
    /\ earlier.op = frame[w].op /\ earlier.fetch = frame[w].fetch

\* C21: two calls of the same listing operation on the same document content
\* give the same output sequence (the same records, with the same field
\* values, in the same order), whatever calls were answered in between.
C21_Deterministic ==
    \A w \in Workers : CalledAgain(w) => frame[w].out = earlier.out

\* the second call has answered the two records of the first, and another
\* call was answered in between
C21_Witness ==
    /\ CalledAgain(1) /\ earlier.between
    /\ Len(frame[1].out.list) = 2 /\ frame[1].out.list = earlier.out.list
    /\ frame[1].out.list[1] # frame[1].out.list[2]

====
